---- MODULE Spec2Model ----
(***************************************************************************)
(* A model of the macaroon authorization engines of rogpeppe/misc:         *)
(*   - auth.Checker (src/auth/auth.go): Authorize and Capability;          *)
(*   - auth.Authorizer (src/bug/bug1/main.go): Allow, AllowAny and         *)
(*     AllowCapability, with the HTTP service of src/auth/service_test.go. *)
(*                                                                         *)
(* Strings that the code splits or tests for a prefix (macaroon ids,       *)
(* entity names) are sequences of tokens; a caveat condition is the        *)
(* record of its name, its arguments and, for time-before, its time.       *)
(* A macaroon is [id, sig, cavs]: sig names the root key that signed it,   *)
(* so that verification against another key fails.  The digest of          *)
(* NewMultiOpEntity is taken to be collision free: the hex digest is       *)
(* represented by the byte stream that was hashed.                         *)
(***************************************************************************)
EXTENDS Integers, Sequences, FiniteSets, TLC

VARIABLES
    now,       \* the wall clock (time.Now), in ticks
    multiOps,  \* memMultiOpStore.ops: multi-op entity name -> operations
    minted,    \* the macaroon slice the client was last handed (<<>>: none)
    issued,    \* the call that handed it: its name, operations and time
    tpChecked, \* the third party discharges obtained for that macaroon
    last       \* the most recent call of the engine: inputs and outcome

vars == <<now, multiOps, minted, issued, tpChecked, last>>

-----------------------------------------------------------------------------
(* Bounds of the model. *)

MaxTime == 3    \* the clock stops ticking here
MaxOps  == 2    \* operations in one request
MaxMss  == 2    \* macaroon slices presented with one request

-----------------------------------------------------------------------------
(* Program constants, in ticks. *)

DefaultCapabilityLifetime     == 2
DefaultAuthenticationLifetime == 3

Everyone == "everyone"

LoginEntity         == <<"login">>
MultiOpEntityPrefix == <<"multi">>

-----------------------------------------------------------------------------
(* Generic helpers on sequences. *)

Range(s) == {s[i] : i \in 1..Len(s)}

HasPrefix(s, p) == Len(s) >= Len(p) /\ SubSeq(s, 1, Len(p)) = p

\* bytes.IndexByte: the first index of token b in s, 0 when absent.
IndexByte(s, b) ==
    IF \E i \in 1..Len(s) : s[i] = b
    THEN CHOOSE i \in 1..Len(s) : s[i] = b /\ \A j \in 1..(i-1) : s[j] # b
    ELSE 0

SeqsUpTo(S, n) == UNION {[1..k -> S] : k \in 0..n}

\* The lexicographic order of the atomic strings of the model.
Alphabet ==
    <<"", "\n", " ", "-", "0", "0001-01-01T00:00:00Z", "2021-01-01T00:00:00Z",
      "2021-01-01T01:00:00+01:00", "2022-01-01T00:00:00Z",
      "2023-01-01T00:00:00Z", "2024-01-01T00:00:00Z", "2025-01-01T00:00:00Z",
      "9", "GET", "PUT",
      "alice", "allow", "bob", "declared", "deny", "e1", "e2", "idm",
      "is-authenticated-user", "login", "multi", "needs-review", "never",
      "read", "soon", "third-party", "time-before", "username", "write">>

StrRank(s) == CHOOSE i \in 1..Len(Alphabet) : Alphabet[i] = s

RECURSIVE SeqLess(_, _)
\* Lexicographic order of two sequences of atomic strings.
SeqLess(a, b) ==
    IF a = <<>> THEN b # <<>>
    ELSE IF b = <<>> THEN FALSE
    ELSE IF Head(a) # Head(b) THEN StrRank(Head(a)) < StrRank(Head(b))
    ELSE SeqLess(Tail(a), Tail(b))

-----------------------------------------------------------------------------
(* Operations and ACLs. *)

Op(action, entity) == [Action |-> action, Entity |-> entity]

E1 == <<"e1">>
E2 == <<"e2">>

Entities == {E1, E2}
Actions  == {"read", "write"}
AllOps   == {Op("read", E1), Op("write", E1), Op("read", E2)}

\* The ACLs the service is configured with: one public operation, one for
\* a single user, and one that nobody may perform.
ACLOf(op) ==
    IF op = Op("read", E1) THEN <<"bob", Everyone>>
    ELSE IF op = Op("write", E1) THEN <<"bob">>
    ELSE <<>>

\* A mutation of IsPublic that looks at the first name of the ACL only.
IsPublicFirstOnly(acl) == Len(acl) > 0 /\ acl[1] = Everyone

IsPublic(acl) == \E i \in 1..Len(acl) : acl[i] = Everyone

\* Params.GetACLs: one ACL for each operation asked about.
GetACLs(ops) == [i \in 1..Len(ops) |-> ACLOf(ops[i])]

\* User.Allow: whether the user is one of the names of the ACL.
UserAllow(user, acl) == \E i \in 1..Len(acl) : acl[i] = Everyone \/ acl[i] = user

allTrue(b) == \A i \in 1..Len(b) : b[i]

actionsForOps(ops) == [i \in 1..Len(ops) |-> ops[i].Action]

-----------------------------------------------------------------------------
(* Caveat conditions (package checkers) and the first party checker. *)

Cond(name, args, t) == [name |-> name, args |-> args, t |-> t]

CondTimeBefore == "time-before"
CondAllow      == "allow"
CondDeny       == "deny"
CondDeclared   == "declared"

\* Conditions only the service's own CaveatChecker understands: the first
\* cannot be decided at authorization time, the second never holds.
CondNeedsReview == Cond("needs-review", <<>>, 0)
CondNever       == Cond("never", <<>>, 0)

Caveat(location, cond) == [Location |-> location, Condition |-> cond]

TimeBeforeCaveat(t)  == Caveat("", Cond(CondTimeBefore, <<>>, t))
AllowCaveat(actions) == Caveat("", Cond(CondAllow, actions, 0))
DeclaredCaveat(k, v) == Caveat("", Cond(CondDeclared, <<k, v>>, 0))

\* checkers.InferDeclaredFromConditions, for the key "username": the
\* declared value, or "" when none is declared or two declarations conflict.
InferDeclaredFromConditions(conditions) ==
    LET vals == {conditions[i].args[2] : i \in {j \in 1..Len(conditions) :
                    /\ conditions[j].name = CondDeclared
                    /\ Len(conditions[j].args) = 2
                    /\ conditions[j].args[1] = "username"}}
    IN IF Cardinality(vals) = 1 THEN CHOOSE v \in vals : TRUE ELSE ""

\* Params.CaveatChecker, the service's own checker.
CaveatChecker(cond) ==
    IF cond = CondNeedsReview THEN "unknown" ELSE "fail"

\* checkers.New(CaveatChecker, TimeBefore, declared, OperationsChecker):
\* "ok", "unknown" (ErrCaveatResultUnknown) or "fail".
CheckFirstPartyCaveat(cond, declared, actions) ==
    IF cond.name = CondTimeBefore THEN
        IF now < cond.t THEN "ok" ELSE "fail"
    ELSE IF cond.name = CondDeclared THEN
        IF Len(cond.args) = 2 /\ cond.args[1] = "username"
              /\ declared # "" /\ cond.args[2] = declared
        THEN "ok" ELSE "fail"
    ELSE IF cond.name = CondAllow THEN
        IF \A i \in 1..Len(actions) : actions[i] \in Range(cond.args)
        THEN "ok" ELSE "fail"
    ELSE IF cond.name = CondDeny THEN
        IF \A i \in 1..Len(actions) : actions[i] \notin Range(cond.args)
        THEN "ok" ELSE "fail"
    ELSE CaveatChecker(cond)

RECURSIVE checkLoop(_, _, _, _, _)
checkLoop(conditions, declared, actions, i, pending) ==
    IF i > Len(conditions) THEN [err |-> FALSE, declared |-> declared, pending |-> pending]
    ELSE LET r == CheckFirstPartyCaveat(conditions[i], declared, actions)
         IN IF r = "ok" THEN checkLoop(conditions, declared, actions, i + 1, pending)
            ELSE IF r = "unknown"
            THEN checkLoop(conditions, declared, actions, i + 1,
                           Append(pending, conditions[i]))
            ELSE [err |-> TRUE, declared |-> "", pending |-> <<>>]

\* Checker.checkConditions
checkConditions(conditions, actions) ==
    checkLoop(conditions, InferDeclaredFromConditions(conditions), actions, 1, <<>>)

\* The order of sort.Strings on conditions.
CondLess(c, d) ==
    IF c.name # d.name THEN StrRank(c.name) < StrRank(d.name)
    ELSE IF c.args # d.args THEN SeqLess(c.args, d.args)
    ELSE c.t < d.t

RECURSIVE SortConds(_)
\* The conditions of a set as a sorted sequence.
SortConds(S) ==
    IF S = {} THEN <<>>
    ELSE LET m == CHOOSE c \in S : \A d \in S \ {c} : CondLess(c, d)
         IN <<m>> \o SortConds(S \ {m})

-----------------------------------------------------------------------------
(* Macaroons, root keys and verification (package macaroon, bakery.Storage). *)

Macaroon(id, sig, cavs) == [id |-> id, sig |-> sig, cavs |-> cavs]

NoMacaroon == Macaroon(<<>>, "", <<>>)

\* The root key of the service's store and the id it is stored under.
RootKey   == "rootkey"
StorageId == <<"0">>

\* bakery.Storage.Get: the key, ErrNotFound, or a failure of the store.
StoreGet(storageId, fault) ==
    IF fault = "rootkey" THEN [err |-> "hard", key |-> ""]
    ELSE IF storageId = StorageId THEN [err |-> "none", key |-> RootKey]
    ELSE [err |-> "notfound", key |-> ""]

\* The id of the discharge macaroon of a third party caveat, and the
\* discharge a third party issues for it with the caveats it adds.
DischargeId(cav) == <<cav.Location, cav.Condition.name>>
Discharge(cav, added) == Macaroon(DischargeId(cav), cav.Location, added)

splitMacaroonId(id) ==
    LET space == IndexByte(id, " ")
    IN IF space # 0
       THEN [entityName |-> SubSeq(id, 1, space - 1),
             storageId |-> SubSeq(id, space + 1, Len(id))]
       ELSE [entityName |-> id, storageId |-> id]

RECURSIVE firstParty(_, _)
\* The first party conditions of a macaroon's caveats, in order.
firstParty(cavs, i) ==
    IF i > Len(cavs) THEN <<>>
    ELSE (IF cavs[i].Location = "" THEN <<cavs[i].Condition>> ELSE <<>>)
         \o firstParty(cavs, i + 1)

RECURSIVE verifyCaveats(_, _, _)
verifyCaveats(cavs, discharges, i) ==
    IF i > Len(cavs) THEN [err |-> FALSE, caveats |-> <<>>]
    ELSE LET cav == cavs[i]
             ds  == {k \in 1..Len(discharges) :
                        /\ discharges[k].id = DischargeId(cav)
                        /\ discharges[k].sig = cav.Location}
             rest == verifyCaveats(cavs, discharges, i + 1)
         IN IF cav.Location = ""
            THEN [err |-> rest.err,
                  caveats |-> IF rest.err THEN <<>> ELSE <<cav.Condition>> \o rest.caveats]
            ELSE IF ds = {} THEN [err |-> TRUE, caveats |-> <<>>]
            ELSE LET d == discharges[CHOOSE k \in ds : \A l \in ds : k <= l]
                 IN [err |-> rest.err,
                     caveats |-> IF rest.err THEN <<>>
                                 ELSE firstParty(d.cavs, 1) \o rest.caveats]

\* verifyIgnoringCaveats: Macaroon.Verify with a check that accepts and
\* records every first party caveat.
verifyIgnoringCaveats(ms, rootKey) ==
    IF Len(ms) = 0 THEN [err |-> TRUE, caveats |-> <<>>]
    ELSE IF rootKey = "" \/ ms[1].sig # rootKey THEN [err |-> TRUE, caveats |-> <<>>]
    ELSE IF \E k \in 2..Len(ms) : ~ \E i \in 1..Len(ms[1].cavs) :
                /\ ms[1].cavs[i].Location # ""
                /\ ms[k].id = DischargeId(ms[1].cavs[i])
         THEN [err |-> TRUE, caveats |-> <<>>]
    ELSE verifyCaveats(ms[1].cavs, Tail(ms), 1)

-----------------------------------------------------------------------------
(* Multi-op entities (src/auth/entity.go). *)

\* A mutation of opsByValue.Less that compares the entities only.
opsLessByEntity(o0, o1) == SeqLess(o0.Entity, o1.Entity)

\* opsByValue.Less
opsLess(o0, o1) ==
    IF o0.Entity # o1.Entity THEN SeqLess(o0.Entity, o1.Entity)
    ELSE StrRank(o0.Action) < StrRank(o1.Action)

RECURSIVE insertOp(_, _)
insertOp(op, sorted) ==
    IF sorted = <<>> THEN <<op>>
    ELSE IF opsLess(op, Head(sorted)) THEN <<op>> \o sorted
    ELSE <<Head(sorted)>> \o insertOp(op, Tail(sorted))

RECURSIVE sortOps(_)
\* sort.Sort(opsByValue(ops))
sortOps(ops) ==
    IF ops = <<>> THEN <<>> ELSE insertOp(Head(ops), sortOps(Tail(ops)))

RECURSIVE hashOps(_, _, _, _)
\* The loop of NewMultiOpEntity over the sorted slice: arr is the slice
\* being compacted in place, j the number of operations kept so far, and
\* data the bytes written to the digest.
hashOps(arr, i, j, data) ==
    IF i > Len(arr) THEN [arr |-> arr, j |-> j, data |-> data]
    ELSE LET op == arr[i]
         IN IF i > 1 /\ op = arr[j]
            THEN hashOps(arr, i + 1, j, data)
            ELSE hashOps([arr EXCEPT ![j + 1] = op], i + 1, j + 1,
                         data \o <<op.Action, "\n">> \o op.Entity \o <<"\n">>)

\* NewMultiOpEntity: the entity name, the operations sorted without
\* duplicates, and (arr) the caller's slice as the call leaves it; h is the
\* result of the loop over the sorted operations.
multiOpEntityOf(h) ==
    [name |-> MultiOpEntityPrefix \o <<"-">> \o h.data,
     ops  |-> SubSeq(h.arr, 1, h.j),
     arr  |-> h.arr]

NewMultiOpEntity(ops) == multiOpEntityOf(hashOps(sortOps(ops), 1, 0, <<>>))

\* MultiOpStore.PutMultiOp: the store keeps, for the key, the operations
\* and the expiry time it was given.
PutMultiOp(store, key, ops, expiry) ==
    [k \in DOMAIN store \cup {key} |->
        IF k = key THEN [ops |-> ops, expiry |-> expiry] ELSE store[k]]

\* memMultiOpStore.GetMultiOp, or a store that fails.
GetMultiOp(key, fault) ==
    IF fault = "multiop" THEN [err |-> "hard", ops |-> <<>>]
    ELSE IF key \in DOMAIN multiOps THEN [err |-> "none", ops |-> multiOps[key].ops]
    ELSE [err |-> "notfound", ops |-> <<>>]

-----------------------------------------------------------------------------
(* The identity service of the tests (src/auth/entity.go). *)

IdmLocation == "idm"

IdentityCaveat == Caveat(IdmLocation, Cond("is-authenticated-user", <<>>, 0))

\* identityService.DeclaredUser: the user, "" with err when none is declared.
DeclaredUser(declared) ==
    IF declared = "" THEN [err |-> TRUE, user |-> ""]
    ELSE [err |-> FALSE, user |-> declared]

-----------------------------------------------------------------------------
(* auth.Checker: the authorizer of one Authorize or Capability call.       *)
(* Besides the fields of the Go struct the record keeps observations       *)
(* used to state properties: reported, every condition handed to           *)
(* addPending, aclCalls, the arguments of the calls of GetACLs, and        *)
(* examined, the indexes of the slices handed to checkAuthzMacaroon and    *)
(* then to checkAuthnMacaroon, in the order of the calls.                  *)

\* Checker.newAuthorizer
newAuthorizer(ops, caveats) ==
    [ops |-> ops, caveats |-> caveats,
     ok |-> [i \in 1..Len(ops) |-> FALSE],
     pendingConditions |-> {}, macaroons |-> <<>>,
     reported |-> {}, aclCalls |-> <<>>, caveatsChecked |-> FALSE,
     examined |-> <<>>]

\* authorizer.addPending
addPending(a, conditions) ==
    LET a1 == [a EXCEPT !.reported = @ \cup Range(conditions)]
    IN IF Cardinality(a.pendingConditions) = 0 THEN a1
       ELSE [a1 EXCEPT !.pendingConditions = @ \cup Range(conditions)]

\* authorizer.addAuthorizedMacaroon
addAuthorizedMacaroon(a, ms, pending) ==
    addPending([a EXCEPT !.macaroons = Append(@, ms)], pending)

RECURSIVE authzOps(_, _, _, _, _, _)
RECURSIVE authzOp(_, _, _, _, _, _, _, _)
\* The loop of checkAuthzMacaroon over a.ops, from index i.
authzOps(a, ms, entityName, conditions, i, fault) ==
    IF i > Len(a.ops) THEN [a |-> a, err |-> FALSE]
    ELSE IF a.ok[i] THEN authzOps(a, ms, entityName, conditions, i + 1, fault)
    ELSE authzOp(a, ms, entityName, conditions, i, fault,
                 checkConditions(conditions, <<a.ops[i].Action>>),
                 GetMultiOp(entityName, fault))

\* One round of the loop, for an operation not yet authorized: c is the
\* result of checkConditions and g that of GetMultiOp.
authzOp(a, ms, entityName, conditions, i, fault, c, g) ==
    IF c.err THEN authzOps(a, ms, entityName, conditions, i + 1, fault)
    ELSE IF entityName # a.ops[i].Entity /\ ~HasPrefix(entityName, MultiOpEntityPrefix)
    THEN authzOps(a, ms, entityName, conditions, i + 1, fault)
    ELSE IF entityName # a.ops[i].Entity /\ g.err = "hard" THEN [a |-> a, err |-> TRUE]
    ELSE IF \/ entityName = a.ops[i].Entity
            \/ \E k \in 1..Len(g.ops) : g.ops[k] = a.ops[i]
    THEN authzOps(addAuthorizedMacaroon([a EXCEPT !.ok[i] = TRUE], ms, c.pending),
                  ms, entityName, conditions, i + 1, fault)
    ELSE authzOps(a, ms, entityName, conditions, i + 1, fault)

\* checkAuthzMacaroon once the macaroon is verified (v).
checkAuthzCaveats(a, ms, fault, id, v) ==
    IF v.err THEN [a |-> a, err |-> FALSE]
    ELSE authzOps(a, ms, id.entityName, v.caveats, 1, fault)

\* checkAuthzMacaroon once the id is split and the root key fetched (k).
checkAuthzVerified(a, ms, fault, id, k) ==
    IF id.entityName = LoginEntity THEN [a |-> a, err |-> FALSE]
    ELSE IF k.err = "hard" THEN [a |-> a, err |-> TRUE]
    ELSE checkAuthzCaveats(a, ms, fault, id, verifyIgnoringCaveats(ms, k.key))

\* authorizer.checkAuthzMacaroon
checkAuthzMacaroon(a, ms, fault) ==
    IF Len(ms) = 0 THEN [a |-> a, err |-> FALSE]
    ELSE checkAuthzVerified(a, ms, fault, splitMacaroonId(ms[1].id),
                            StoreGet(splitMacaroonId(ms[1].id).storageId, fault))

\* checkAuthnMacaroon once the conditions are checked (c).
checkAuthnUser(c, u) ==
    IF c.err THEN [user |-> "", pending |-> <<>>, err |-> "verification"]
    ELSE IF u.err THEN [user |-> "", pending |-> <<>>, err |-> "verification"]
    ELSE [user |-> u.user, pending |-> c.pending, err |-> "none"]

\* checkAuthnMacaroon once the macaroon is verified (v).
checkAuthnCaveats(c) == checkAuthnUser(c, DeclaredUser(c.declared))

\* checkAuthnMacaroon once the root key is fetched (k).
checkAuthnKey(a, v) ==
    IF v.err THEN [user |-> "", pending |-> <<>>, err |-> "verification"]
    ELSE checkAuthnCaveats(checkConditions(v.caveats, actionsForOps(a.ops)))

checkAuthnVerified(a, ms, k) ==
    IF k.err = "hard" THEN [user |-> "", pending |-> <<>>, err |-> "hard"]
    ELSE checkAuthnKey(a, verifyIgnoringCaveats(ms, k.key))

\* authorizer.checkAuthnMacaroon: err is "none", "verification" or "hard".
checkAuthnMacaroon(a, ms, fault) ==
    IF Len(ms) = 0 THEN [user |-> "", pending |-> <<>>, err |-> "verification"]
    ELSE IF splitMacaroonId(ms[1].id).entityName # LoginEntity
    THEN [user |-> "", pending |-> <<>>, err |-> "verification"]
    ELSE checkAuthnVerified(a, ms, StoreGet(splitMacaroonId(ms[1].id).storageId, fault))

\* authorizer.newMacaroon.  No condition is ever pending when it runs
\* (see addPending), so the order of the range over the map is immaterial.
newMacaroon(a, entity, caveats, fault) ==
    LET id == IF StorageId = entity THEN StorageId
              ELSE entity \o <<" ">> \o StorageId
        pend == SortConds(a.pendingConditions)
    IN IF fault = "rootkey" THEN [err |-> TRUE, m |-> NoMacaroon]
       ELSE [err |-> FALSE,
             m |-> Macaroon(id, RootKey,
                      [i \in 1..Len(pend) |-> Caveat("", pend[i])] \o caveats)]

\* A mutation of authzEntityMulti that does not save the multi-op entity.
authzEntityMultiUnsaved(multi, fault) ==
    [err |-> fault = "multiop",
     entity |-> IF fault = "multiop" THEN <<>> ELSE multi.name,
     allowActions |-> <<>>, store |-> multiOps, ops |-> multi.arr]

\* authzEntity when the operations are of several entities.
authzEntityMulti(multi, fault) ==
    IF fault = "multiop"
    THEN [err |-> TRUE, entity |-> <<>>, allowActions |-> <<>>,
          store |-> multiOps, ops |-> multi.arr]
    ELSE [err |-> FALSE, entity |-> multi.name, allowActions |-> <<>>,
          store |-> PutMultiOp(multiOps, multi.name, multi.ops,
                               now + DefaultCapabilityLifetime),
          ops |-> multi.arr]

\* A mutation of authzEntity whose allow caveat names the first action only.
authzEntityFirstAction(a, fault) ==
    IF \A i \in 2..Len(a.ops) : a.ops[i].Entity = a.ops[1].Entity
    THEN [err |-> FALSE, entity |-> a.ops[1].Entity,
          allowActions |-> <<a.ops[1].Action>>,
          store |-> multiOps, ops |-> a.ops]
    ELSE authzEntityMulti(NewMultiOpEntity(a.ops), fault)

\* authorizer.authzEntity: store is the multi-op store and ops the slice
\* of the requested operations as the call leaves them.
authzEntity(a, fault) ==
    IF \A i \in 2..Len(a.ops) : a.ops[i].Entity = a.ops[1].Entity
    THEN [err |-> FALSE, entity |-> a.ops[1].Entity,
          allowActions |-> actionsForOps(a.ops),
          store |-> multiOps, ops |-> a.ops]
    ELSE authzEntityMulti(NewMultiOpEntity(a.ops), fault)

\* The rest of newAuthzMacaroon once authzEntity returned e and newMacaroon m.
authzMacaroonOf(e, m) ==
    IF e.err THEN [err |-> TRUE, m |-> NoMacaroon, store |-> e.store, ops |-> e.ops]
    ELSE [err |-> m.err, m |-> m.m, store |-> e.store, ops |-> e.ops]

\* newAuthzMacaroon once authzEntity returned e.
newAuthzMacaroonFor(a, needCaveats, fault, e) ==
    authzMacaroonOf(e,
        newMacaroon(a, e.entity,
            (IF needCaveats THEN a.caveats ELSE <<>>)
            \o <<TimeBeforeCaveat(now + DefaultCapabilityLifetime)>>
            \o (IF Len(e.allowActions) # 0
                THEN <<AllowCaveat(e.allowActions)>> ELSE <<>>),
            fault))

\* authorizer.newAuthzMacaroon
newAuthzMacaroon(a, needCaveats, fault) ==
    newAuthzMacaroonFor(a, needCaveats, fault, authzEntity(a, fault))

\* The outcome of a call: kind is "ok", "discharge" (DischargeRequiredError),
\* "denied" (permission denied) or "error" (any other error).  User,
\* Macaroons and PendingConditions are the AuthInfo of a success;
\* Authenticator and Macaroon the fields of a DischargeRequiredError (and
\* Macaroon the capability minted by Capability); store and ops are the
\* multi-op store and the caller's operations slice after the call; a is
\* the authorizer as the call leaves it and user the user it found.
Outcome(a, kind, user, authenticator, m, store, ops) ==
    [kind |-> kind,
     User |-> IF kind = "ok" THEN user ELSE "",
     Macaroons |-> IF kind = "ok" THEN a.macaroons ELSE <<>>,
     PendingConditions |-> IF kind = "ok" THEN SortConds(a.pendingConditions) ELSE <<>>,
     Authenticator |-> authenticator, Macaroon |-> m,
     store |-> store, ops |-> ops, a |-> a, user |-> user]

Failed(a, kind, user) == Outcome(a, kind, user, FALSE, NoMacaroon, multiOps, a.ops)

\* The error of newAuthnDischargeRequiredError once newMacaroon returned m.
authnDischargeRequired(a, m) ==
    IF m.err THEN Failed(a, "error", "")
    ELSE Outcome(a, "discharge", "", TRUE, m.m, multiOps, a.ops)

\* A mutation of newAuthnDischargeRequiredError that gives the authentication
\* macaroon the lifetime of a capability.
newAuthnDischargeShortLived(a, fault) ==
    authnDischargeRequired(a,
        newMacaroon(a, LoginEntity,
            <<IdentityCaveat, TimeBeforeCaveat(now + DefaultCapabilityLifetime)>>,
            fault))

\* authorizer.newAuthnDischargeRequiredError
newAuthnDischargeRequiredError(a, fault) ==
    authnDischargeRequired(a,
        newMacaroon(a, LoginEntity,
            <<IdentityCaveat, TimeBeforeCaveat(now + DefaultAuthenticationLifetime)>>,
            fault))

\* The error of newAuthzDischargeRequiredError once newAuthzMacaroon returned m.
authzDischargeRequired(a, user, m) ==
    IF m.err THEN Outcome(a, "error", user, FALSE, NoMacaroon, m.store, m.ops)
    ELSE Outcome(a, "discharge", user, TRUE, m.m, m.store, m.ops)

\* authorizer.newAuthzDischargeRequiredError
newAuthzDischargeRequiredError(a, user, fault) ==
    authzDischargeRequired(a, user, newAuthzMacaroon(a, TRUE, fault))

\* A mutation of needOpsFrom that asks about every requested operation.
needOpsAll(a, i) == SubSeq(a.ops, i, Len(a.ops))

\* The operations of a.ops from index i on that are not yet authorized.
RECURSIVE needOpsFrom(_, _)
needOpsFrom(a, i) ==
    IF i > Len(a.ops) THEN <<>>
    ELSE (IF a.ok[i] THEN <<>> ELSE <<a.ops[i]>>) \o needOpsFrom(a, i + 1)

\* authorizeWhenAuthenticated once the first party caveats of the call are
\* checked (c).
authorizeCaveats(a, user, c) ==
    IF c.err THEN Failed(a, "error", user)
    ELSE Failed(addPending(a, c.pending), "ok", user)

\* authorizeWhenAuthenticated once GetACLs returned acls.
authorizeNeeded(a, user, fault, acls) ==
    IF \E i \in 1..Len(acls) :
          ~(IF user = "" THEN IsPublic(acls[i]) ELSE UserAllow(user, acls[i]))
    THEN IF user # "" THEN Failed(a, "denied", user)
         ELSE newAuthnDischargeRequiredError(a, fault)
    ELSE IF Len(a.caveats) = 0 THEN Failed(a, "ok", user)
    ELSE IF \E i \in 1..Len(a.caveats) : a.caveats[i].Location # ""
    THEN newAuthzDischargeRequiredError(a, user, fault)
    ELSE authorizeCaveats([a EXCEPT !.caveatsChecked = TRUE], user,
             checkConditions([i \in 1..Len(a.caveats) |-> a.caveats[i].Condition],
                             actionsForOps(a.ops)))

\* authorizer.authorizeWhenAuthenticated; user is "" when nobody is
\* authenticated.  The result is an Outcome; kind "ok" stands for nil.
authorizeWhenAuthenticated(a0, user, fault) ==
    authorizeNeeded([a0 EXCEPT !.aclCalls = Append(@, needOpsFrom(a0, 1))],
                    user, fault, GetACLs(needOpsFrom(a0, 1)))

RECURSIVE authzLoop(_, _, _, _)
RECURSIVE authzNext(_, _, _, _)
\* The first loop of authorize, from slice k.
authzLoop(a, mss, k, fault) ==
    IF k > Len(mss) THEN [a |-> a, err |-> FALSE]
    ELSE authzNext(checkAuthzMacaroon([a EXCEPT !.examined = Append(@, k)],
                                      mss[k], fault),
                   mss, k, fault)

\* A mutation of authzNext that goes on to the next slice after an error.
authzNextAfterError(r, mss, k, fault) ==
    authzLoop(r.a, mss, k + 1, fault)

authzNext(r, mss, k, fault) ==
    IF r.err THEN r ELSE authzLoop(r.a, mss, k + 1, fault)

RECURSIVE authnLoop(_, _, _, _)
RECURSIVE authnNext(_, _, _, _, _)
\* The second loop of authorize, from slice k.
authnLoop(a, mss, k, fault) ==
    IF k > Len(mss) THEN [a |-> a, user |-> "", err |-> FALSE]
    ELSE authnNext([a EXCEPT !.examined = Append(@, k)],
                   checkAuthnMacaroon(a, mss[k], fault), mss, k, fault)

\* A mutation of authnNext that goes on to the slices after the one that
\* authenticates, so that the last such slice names the user.
authnNextLast(a, r, mss, k, fault) ==
    IF r.err = "hard" THEN [a |-> a, user |-> "", err |-> TRUE]
    ELSE IF r.err = "verification" THEN authnLoop(a, mss, k + 1, fault)
    ELSE IF authnLoop(a, mss, k + 1, fault).user # ""
    THEN authnLoop(a, mss, k + 1, fault)
    ELSE [a |-> addAuthorizedMacaroon(a, mss[k], r.pending),
          user |-> r.user, err |-> FALSE]

authnNext(a, r, mss, k, fault) ==
    IF r.err = "hard" THEN [a |-> a, user |-> "", err |-> TRUE]
    ELSE IF r.err = "verification" THEN authnLoop(a, mss, k + 1, fault)
    ELSE [a |-> addAuthorizedMacaroon(a, mss[k], r.pending),
          user |-> r.user, err |-> FALSE]

\* authorize after its second loop (n).
authorizeRest(n, fault) ==
    IF n.err THEN Failed(n.a, "error", "")
    ELSE IF ~allTrue(n.a.ok) THEN authorizeWhenAuthenticated(n.a, n.user, fault)
    ELSE Failed(n.a, "ok", n.user)

\* authorize after its first loop (z).
authorizeAuthn(z, mss, fault) ==
    IF z.err THEN Failed(z.a, "error", "")
    ELSE authorizeRest(authnLoop(z.a, mss, 1, fault), fault)

\* authorizer.authorize
authorize(a0, mss, fault) ==
    authorizeAuthn(authzLoop(a0, mss, 1, fault), mss, fault)

\* Checker.Authorize
Authorize(mss, ops, caveats, fault) ==
    IF Len(ops) = 0 THEN Failed(newAuthorizer(ops, caveats), "error", "")
    ELSE authorize(newAuthorizer(ops, caveats), mss, fault)

\* Capability once the capability is minted (m).
capabilityMinted(r, m) ==
    IF m.err THEN Outcome(r.a, "error", r.user, FALSE, NoMacaroon, m.store, m.ops)
    ELSE [r EXCEPT !.Macaroon = m.m, !.store = m.store, !.ops = m.ops]

\* Capability once Authorize returned r.
capabilityFor(r, fault) ==
    IF r.kind # "ok" THEN r
    ELSE capabilityMinted(r, newAuthzMacaroon(r.a, FALSE, fault))

\* Checker.Capability: on success Macaroon is the capability.
Capability(mss, ops, caveats, fault) ==
    capabilityFor(Authorize(mss, ops, caveats, fault), fault)

-----------------------------------------------------------------------------
(* The clients.  Jar holds the macaroon slices the clients hold when the   *)
(* model starts, all issued by the service at time 0: an authentication    *)
(* macaroon discharged for each user, two capabilities, one of them also   *)
(* attenuated by its holder, a capability for operations of two entities,  *)
(* and three slices that verify for nobody.                                *)

Users == {"bob", "alice"}

LoginMacaroon(t) ==
    Macaroon(LoginEntity \o <<" ">> \o StorageId, RootKey,
             <<IdentityCaveat, TimeBeforeCaveat(t + DefaultAuthenticationLifetime)>>)

CapabilityMacaroon(entity, actions, t) ==
    Macaroon(entity \o <<" ">> \o StorageId, RootKey,
             <<TimeBeforeCaveat(t + DefaultCapabilityLifetime), AllowCaveat(actions)>>)

\* The identity service discharges the identity caveat for a user.
Login(m, user) == <<m, Discharge(IdentityCaveat, <<DeclaredCaveat("username", user)>>)>>

\* The holder of a macaroon adds a first party caveat to it.
Attenuate(m, cond) == [m EXCEPT !.cavs = Append(@, Caveat("", cond))]

EmptySlice  == <<>>
ForgedSlice == <<[CapabilityMacaroon(E1, <<"write">>, 0) EXCEPT !.sig = "forged"]>>
StaleSlice  == <<Macaroon(E2 \o <<" ">> \o <<"9">>, "oldkey",
                          <<AllowCaveat(<<"read">>)>>)>>

\* The operations of the multi-op capability of the jar, and the
\* capability as Capability minted it at time 0.
MultiOps == <<Op("write", E1), Op("read", E2)>>

MultiSlice ==
    <<Macaroon(NewMultiOpEntity(MultiOps).name \o <<" ">> \o StorageId, RootKey,
               <<TimeBeforeCaveat(DefaultCapabilityLifetime)>>)>>

Jar ==
    {Login(LoginMacaroon(0), u) : u \in Users}
    \cup {MultiSlice}
    \cup {<<CapabilityMacaroon(E1, <<"write">>, 0)>>,
          <<CapabilityMacaroon(E2, <<"read">>, 0)>>,
          <<Attenuate(CapabilityMacaroon(E1, <<"write">>, 0), CondNeedsReview)>>,
          EmptySlice, ForgedSlice, StaleSlice}

\* A third party other than the identity service.
ThirdParty == "third-party"
ThirdPartyCaveat == Caveat(ThirdParty, Cond("never", <<>>, 0))

\* The caveats argument of a call.
ExtraCaveats ==
    {<<>>, <<Caveat("", CondNeedsReview)>>, <<Caveat("", CondNever)>>,
     <<ThirdPartyCaveat>>}

Requests == SeqsUpTo(AllOps, MaxOps)

\* The conditions a call runs under: the caveats argument the service
\* passes when its stores work, and a failing root key store or multi-op
\* store when it passes no caveats.
Faults == {"rootkey", "multiop"}

Conditions ==
    {[caveats |-> c, fault |-> "none"] : c \in ExtraCaveats}
    \cup {[caveats |-> <<>>, fault |-> f] : f \in Faults}

\* What a client presents with a request: slices of its jar.
Presented == SeqsUpTo(Jar, MaxMss)

NotIssued ==
    [call |-> "none", kind |-> "none", ops |-> <<>>, now |-> 0, req |-> <<>>,
     identity |-> "", need |-> <<>>]

NoCall ==
    [call |-> "none", mss |-> <<>>, ops |-> <<>>, caveats |-> <<>>,
     fault |-> "none", now |-> 0,
     out |-> Outcome(newAuthorizer(<<>>, <<>>), "none", "", FALSE, NoMacaroon,
                     <<>>, <<>>)]

Call(name, mss, ops, caveats, fault, out) ==
    [call |-> name, mss |-> mss, ops |-> ops, caveats |-> caveats,
     fault |-> fault, now |-> now, out |-> out]

Init ==
    /\ now = 0
    /\ multiOps = PutMultiOp(<<>>, NewMultiOpEntity(MultiOps).name,
                             NewMultiOpEntity(MultiOps).ops,
                             DefaultCapabilityLifetime)
    /\ minted = <<>>
    /\ issued = NotIssued
    /\ tpChecked = 0
    /\ last = NoCall

\* The macaroon a call hands to the client, if any.
Handed(out) ==
    IF out.Macaroon # NoMacaroon THEN <<(<<out.Macaroon>>)>> ELSE <<>>

\* The call returns: the client reads the outcome and keeps the macaroon it
\* is handed.
Respond(name, mss, ops, c, o) ==
    /\ last' = Call(name, mss, ops, c.caveats, c.fault, o)
    /\ multiOps' = o.store
    /\ minted' = Handed(o)
    /\ issued' = IF o.Macaroon # NoMacaroon
                 THEN [call |-> name, kind |-> o.kind, ops |-> ops,
                       now |-> now, req |-> ops, identity |-> o.user,
                       need |-> needOpsFrom(o.a, 1)]
                 ELSE NotIssued

\* The call made with the macaroon the client was handed returns.
Redeemed(ops, c, o) ==
    /\ last' = Call("Redeem", minted, ops, c.caveats, c.fault, o)
    /\ multiOps' = o.store

\* A client calls the service with macaroons of its jar.
DoAuthorize ==
    /\ last.call = "none"
    /\ minted = <<>>
    /\ \E mss \in Presented, ops \in Requests, c \in Conditions :
         Respond("Authorize", mss, ops, c, Authorize(mss, ops, c.caveats, c.fault))
    /\ UNCHANGED <<now, tpChecked>>

DoCapability ==
    /\ last.call = "none"
    /\ minted = <<>>
    /\ \E mss \in Presented, ops \in Requests, c \in Conditions :
         Respond("Capability", mss, ops, c, Capability(mss, ops, c.caveats, c.fault))
    /\ UNCHANGED <<now, tpChecked>>

\* The client presents, on its own, the macaroon it was handed.
Redeem ==
    /\ last.call = "none"
    /\ minted # <<>>
    /\ \E ops \in Requests, c \in Conditions :
         Redeemed(ops, c, Authorize(minted, ops, c.caveats, c.fault))
    /\ minted' = <<>>
    /\ UNCHANGED <<now, issued, tpChecked>>

\* The client has read the response.
Settle ==
    /\ last.call # "none"
    /\ last' = NoCall
    /\ issued' = IF minted = <<>> THEN NotIssued ELSE issued
    /\ UNCHANGED <<now, multiOps, minted, tpChecked>>

\* The third parties discharge the third party caveats of the macaroon the
\* client was handed; the identity service does so for any of the users.
Discharges(m, user) ==
    LET tp == {i \in 1..Len(m.cavs) : m.cavs[i].Location # ""}
        d(i) == IF m.cavs[i] = IdentityCaveat
                THEN Discharge(m.cavs[i], <<DeclaredCaveat("username", user)>>)
                ELSE Discharge(m.cavs[i], <<>>)
    IN [k \in 1..Cardinality(tp) |->
            d(CHOOSE i \in tp : Cardinality({j \in tp : j < i}) = k - 1)]

DischargeAll ==
    /\ last.call = "none"
    /\ minted # <<>>
    /\ Len(minted[1]) = 1
    /\ \E i \in 1..Len(minted[1][1].cavs) : minted[1][1].cavs[i].Location # ""
    /\ \E user \in Users :
         minted' = <<(<<minted[1][1]>> \o Discharges(minted[1][1], user))>>
    /\ UNCHANGED <<now, multiOps, issued, tpChecked, last>>

\* The client drops the macaroon it was handed.
Drop ==
    /\ last.call = "none"
    /\ minted # <<>>
    /\ minted' = <<>>
    /\ issued' = NotIssued
    /\ UNCHANGED <<now, multiOps, tpChecked, last>>

Tick ==
    /\ last.call = "none"
    /\ now < MaxTime
    /\ now' = now + 1
    /\ UNCHANGED <<multiOps, minted, issued, tpChecked, last>>

Next == DoAuthorize \/ DoCapability \/ Redeem \/ Settle \/ DischargeAll \/ Drop \/ Tick

Spec == Init /\ [][Next]_vars

-----------------------------------------------------------------------------
(* Properties of Checker.Authorize and Checker.Capability.                 *)
(*                                                                         *)
(* They are stated of the response the client is reading (last), which     *)
(* holds the arguments of the call, the time it was made and its outcome.  *)

Called == last.call # "none"
out    == last.out

\* The first party conditions of a verified slice, as Macaroon.Verify hands
\* them to the check function.
ConditionsOf(ms) ==
    verifyIgnoringCaveats(ms, StoreGet(splitMacaroonId(ms[1].id).storageId, "none").key).caveats

\* The conditions the caveat checker answers ErrCaveatResultUnknown for.
Unknown(conditions) ==
    {c \in Range(conditions) : CaveatChecker(c) = "unknown"}

\* The first party conditions of the caveats argument.
ExtraConditions == firstParty(last.caveats, 1)

\* C1: when Authorize or Capability succeeds, every first party condition
\* the caveat checker answered ErrCaveatResultUnknown for, on a macaroon
\* the result names as used or on the caveats argument once it was
\* checked, is in AuthInfo.PendingConditions, which is sorted and free of
\* duplicates.
C1_PendingConditionsReported ==
    (Called /\ out.kind = "ok") =>
        /\ \A k \in 1..Len(out.Macaroons) :
              Unknown(ConditionsOf(out.Macaroons[k])) \subseteq Range(out.PendingConditions)
        /\ out.a.caveatsChecked =>
              Unknown(ExtraConditions) \subseteq Range(out.PendingConditions)
        /\ out.a.reported \subseteq Range(out.PendingConditions)
        /\ \A i, j \in 1..Len(out.PendingConditions) :
              i < j => CondLess(out.PendingConditions[i], out.PendingConditions[j])

\* The operations of the request that no presented macaroon authorized.
Unsatisfied == {i \in 1..Len(last.ops) : ~out.a.ok[i]}

\* C3: when the stores work, nobody is authenticated and some requested
\* operation that no macaroon authorized has an ACL without "everyone",
\* the call fails with a DischargeRequiredError whose Authenticator is
\* true and whose macaroon has the login entity in its id and carries the
\* identity service's caveat and a time-before caveat of the time of the
\* call plus the authentication lifetime; there is no AuthInfo.
C3_AuthnDischargeRequired ==
    (/\ Called
     /\ last.fault = "none"
     /\ out.user = ""
     /\ \E i \in Unsatisfied : Everyone \notin Range(ACLOf(last.ops[i])))
    => /\ out.kind = "discharge"
       /\ out.Authenticator
       /\ splitMacaroonId(out.Macaroon.id).entityName = LoginEntity
       /\ IdentityCaveat \in Range(out.Macaroon.cavs)
       /\ TimeBeforeCaveat(last.now + DefaultAuthenticationLifetime)
              \in Range(out.Macaroon.cavs)
       /\ out.User = "" /\ out.Macaroons = <<>> /\ out.PendingConditions = <<>>

\* C3 witness: an unauthenticated request for a private operation got the
\* authentication macaroon.
C3_Witness ==
    /\ Called /\ last.fault = "none" /\ out.user = ""
    /\ \E i \in Unsatisfied : Everyone \notin Range(ACLOf(last.ops[i]))
    /\ last.mss # <<>>
    /\ out.kind = "discharge"
    /\ splitMacaroonId(out.Macaroon.id).entityName = LoginEntity

\* The ACL check passes for every operation no macaroon authorized.
ACLsPass ==
    \A i \in Unsatisfied :
        \/ Everyone \in Range(ACLOf(last.ops[i]))
        \/ out.user # "" /\ out.user \in Range(ACLOf(last.ops[i]))

\* C4: when the stores work, the operations no macaroon authorized all pass
\* the ACL check and the caveats argument holds a caveat with a Location,
\* the call fails with a DischargeRequiredError whose Authenticator is
\* false and whose macaroon is scoped to the requested operations and
\* carries every caveat of the argument.
C4_AuthzDischargeRequired ==
    (/\ Called
     /\ last.fault = "none"
     /\ Unsatisfied # {}
     /\ ACLsPass
     /\ \E i \in 1..Len(last.caveats) : last.caveats[i].Location # "")
    => /\ out.kind = "discharge"
       /\ ~out.Authenticator
       /\ Range(last.caveats) \subseteq Range(out.Macaroon.cavs)
       /\ LET entity == splitMacaroonId(out.Macaroon.id).entityName
          IN \/ /\ \A i \in 1..Len(last.ops) : last.ops[i].Entity = entity
                /\ AllowCaveat(actionsForOps(last.ops)) \in Range(out.Macaroon.cavs)
             \/ /\ entity \in DOMAIN multiOps
                /\ Range(multiOps[entity].ops) = Range(last.ops)

\* C5: Authorize and Capability succeed only when every caveat of the
\* caveats argument was checked: none is a third party caveat nobody
\* discharged, and the first party ones went through the caveat checker.
C5_CaveatsCheckedBeforeSuccess ==
    (Called /\ out.kind = "ok" /\ Len(last.caveats) > 0) =>
        /\ \A i \in 1..Len(last.caveats) : last.caveats[i].Location = ""
        /\ out.a.caveatsChecked

\* A slice is a valid capability for an operation: it verifies against the
\* root key, its conditions hold for the operation's action, and its id
\* names the operation's entity or a stored multi-op entity holding the
\* operation.
Covers(ms, op) ==
    /\ Len(ms) > 0
    /\ LET id == splitMacaroonId(ms[1].id)
           k  == StoreGet(id.storageId, "none")
           v  == verifyIgnoringCaveats(ms, k.key)
       IN /\ id.entityName # LoginEntity
          /\ k.err = "none"
          /\ ~v.err
          /\ ~checkConditions(v.caveats, <<op.Action>>).err
          /\ \/ id.entityName = op.Entity
             \/ /\ HasPrefix(id.entityName, MultiOpEntityPrefix)
                /\ id.entityName \in DOMAIN multiOps
                /\ op \in Range(multiOps[id.entityName].ops)

\* The requested operations no presented slice is a valid capability for,
\* in the order of the request.
RECURSIVE NotCovered(_)
NotCovered(i) ==
    IF i > Len(last.ops) THEN <<>>
    ELSE (IF \E k \in 1..Len(last.mss) : Covers(last.mss[k], last.ops[i])
          THEN <<>> ELSE <<last.ops[i]>>) \o NotCovered(i + 1)

\* C6: when the stores work, GetACLs is called once, with exactly the
\* requested operations no macaroon satisfied, in the order of the
\* request; when a macaroon satisfied every operation it is not called at
\* all and the call succeeds.
C6_GetACLsOnlyForUnsatisfied ==
    (Called /\ last.fault = "none" /\ Len(last.ops) > 0) =>
        IF NotCovered(1) = <<>>
        THEN out.a.aclCalls = <<>> /\ out.kind = "ok"
        ELSE out.a.aclCalls = <<NotCovered(1)>>

\* C6 witness: a request of two operations, the second of them satisfied by
\* a capability and the first one not; and a request GetACLs was not
\* called for.
C6_Witness ==
    /\ Called /\ last.fault = "none" /\ Len(last.ops) = 2
    /\ last.ops[1] # last.ops[2]
    /\ NotCovered(1) = <<last.ops[1]>>
    /\ out.a.aclCalls = <<(<<last.ops[1]>>)>>

\* C7 as stated: with no macaroons, Authorize succeeds exactly when the
\* ACL of every requested operation contains "everyone".
C7_PublicIffEveryone ==
    (Called /\ last.call = "Authorize" /\ last.mss = <<>> /\ Len(last.ops) > 0) =>
        (out.kind = "ok"
            <=> \A i \in 1..Len(last.ops) : Everyone \in Range(ACLOf(last.ops[i])))

\* No caveat of the caveats argument stands in the way: none is a third
\* party caveat and the caveat checker rejects none.
ExtraCaveatsPass ==
    \A i \in 1..Len(last.caveats) :
        /\ last.caveats[i].Location = ""
        /\ CaveatChecker(last.caveats[i].Condition) # "fail"

\* C7 amended: with no macaroons, Authorize succeeds exactly when the ACL
\* of every requested operation contains "everyone" and the caveats
\* argument holds no third party caveat and no condition that fails; the
\* AuthInfo then has no User and no Macaroons; an operation with an empty
\* ACL is never granted.
C7_PublicIffEveryoneAndCaveats ==
    (Called /\ last.call = "Authorize" /\ last.mss = <<>> /\ Len(last.ops) > 0) =>
        /\ out.kind = "ok"
              <=> /\ \A i \in 1..Len(last.ops) : Everyone \in Range(ACLOf(last.ops[i]))
                  /\ ExtraCaveatsPass
        /\ out.kind = "ok" => out.User = "" /\ out.Macaroons = <<>>
        /\ (\E i \in 1..Len(last.ops) : ACLOf(last.ops[i]) = <<>>) => out.kind # "ok"

\* C7 witness: Authorize without macaroons succeeded for a public operation.
C7_Witness ==
    /\ Called /\ last.call = "Authorize" /\ last.mss = <<>> /\ Len(last.ops) > 0
    /\ out.kind = "ok" /\ out.User = "" /\ out.Macaroons = <<>>

\* C8: a capability handed out by a successful Capability call for the
\* operations S, presented on its own before it expires while the stores
\* work, authorizes every non-empty request of operations of S; nobody is
\* authenticated.
C8_CapabilityAuthorizesSubsets ==
    (/\ last.call = "Redeem"
     /\ issued.call = "Capability" /\ issued.kind = "ok"
     /\ last.fault = "none" /\ last.caveats = <<>>
     /\ Len(last.ops) > 0
     /\ Range(last.ops) \subseteq Range(issued.ops)
     /\ last.now < issued.now + DefaultCapabilityLifetime)
    => /\ out.kind = "ok"
       /\ out.User = ""
       /\ Range(out.Macaroons) = {last.mss[1]}

\* C8 witness: a capability for two operations of different entities
\* authorized a later request for one of them.
C8_Witness ==
    /\ last.call = "Redeem"
    /\ issued.call = "Capability" /\ issued.kind = "ok"
    /\ Len(issued.ops) = 2 /\ issued.ops[1].Entity # issued.ops[2].Entity
    /\ last.fault = "none" /\ last.caveats = <<>>
    /\ Len(last.ops) = 1 /\ last.ops[1] \in Range(issued.ops)
    /\ out.kind = "ok" /\ out.User = ""

\* C11: a successful Authorize or Capability names each presented slice at
\* most once in AuthInfo.Macaroons, however many of the requested
\* distinct requested operations the slice authorizes.
C11_MacaroonsListedOnce ==
    (/\ Called /\ out.kind = "ok"
     /\ \A i, j \in 1..Len(last.ops) : i # j => last.ops[i] # last.ops[j]) =>
        \A i, j \in 1..Len(out.Macaroons) :
            i # j => out.Macaroons[i] # out.Macaroons[j]

\* The requested operations are all of one entity.
OneEntity == \A i \in 1..Len(last.ops) : last.ops[i].Entity = last.ops[1].Entity

\* seq holds the operations of ops, each of them once, in the order of
\* (entity, action).
SortedSetOf(seq, ops) ==
    /\ Range(seq) = Range(ops)
    /\ \A i, j \in 1..Len(seq) : i < j => opsLess(seq[i], seq[j])

\* C12: the capability a successful Capability call mints names, in its
\* id, the entity of the requested operations when they are all of one
\* entity, and then carries an allow caveat of exactly the requested
\* actions; otherwise it names the multi-op entity of the requested
\* operations, which the multi-op store then holds with the operations
\* sorted, each of them once, and the expiry of the time of the call plus
\* the capability lifetime.
C12_CapabilityEntity ==
    (Called /\ last.call = "Capability" /\ out.kind = "ok") =>
        LET entity == splitMacaroonId(out.Macaroon.id).entityName
        IN IF OneEntity
           THEN /\ entity = last.ops[1].Entity
                /\ AllowCaveat(actionsForOps(last.ops)) \in Range(out.Macaroon.cavs)
                /\ \A i \in 1..Len(out.Macaroon.cavs) :
                      out.Macaroon.cavs[i].Condition.name = CondAllow
                          => out.Macaroon.cavs[i] = AllowCaveat(actionsForOps(last.ops))
           ELSE /\ entity = NewMultiOpEntity(last.ops).name
                /\ HasPrefix(entity, MultiOpEntityPrefix)
                /\ entity \in DOMAIN multiOps
                /\ SortedSetOf(multiOps[entity].ops, last.ops)
                /\ multiOps[entity].expiry = last.now + DefaultCapabilityLifetime
                /\ \A i \in 1..Len(out.Macaroon.cavs) :
                      out.Macaroon.cavs[i].Condition.name # CondAllow

\* C12 witness: a capability for operations of two entities was minted
\* after the clock had advanced.
C12_Witness ==
    /\ Called /\ last.call = "Capability" /\ out.kind = "ok"
    /\ ~OneEntity
    /\ last.now > 0
    /\ splitMacaroonId(out.Macaroon.id).entityName \in DOMAIN multiOps

\* C13: the capability a successful Capability call mints carries the
\* caveats of the caveats argument, then a time-before caveat of the time
\* of the call plus the capability lifetime, then, when the operations are
\* all of one entity, the allow caveat of their actions.
C13_CapabilityCaveats ==
    (Called /\ last.call = "Capability" /\ out.kind = "ok") =>
        out.Macaroon.cavs =
            last.caveats
            \o <<TimeBeforeCaveat(last.now + DefaultCapabilityLifetime)>>
            \o (IF OneEntity THEN <<AllowCaveat(actionsForOps(last.ops))>> ELSE <<>>)

\* The indexes 1..n in order.
UpTo(n) == [i \in 1..n |-> i]

\* The smallest index of a non-empty set of indexes.
First(S) == CHOOSE k \in S : \A l \in S : k <= l

\* The presented slices checkAuthzMacaroon fetches a root key for, and
\* those checkAuthnMacaroon does.
AuthzKeyed == {k \in 1..Len(last.mss) :
                 /\ Len(last.mss[k]) > 0
                 /\ splitMacaroonId(last.mss[k][1].id).entityName # LoginEntity}
AuthnKeyed == {k \in 1..Len(last.mss) :
                 /\ Len(last.mss[k]) > 0
                 /\ splitMacaroonId(last.mss[k][1].id).entityName = LoginEntity}

\* The slice k verifies and its conditions hold for the operation i.
Holds(k, i) ==
    /\ k \in AuthzKeyed
    /\ LET id == splitMacaroonId(last.mss[k][1].id)
           key == StoreGet(id.storageId, "none")
           v  == verifyIgnoringCaveats(last.mss[k], key.key)
       IN /\ key.err = "none"
          /\ ~v.err
          /\ ~checkConditions(v.caveats, <<last.ops[i].Action>>).err

\* The slices checkAuthzMacaroon calls GetMultiOp for: valid multi-op
\* capabilities whose conditions hold for an operation that no earlier
\* slice authorized by naming its entity.
MultiOpKeyed ==
    {k \in AuthzKeyed :
        /\ HasPrefix(splitMacaroonId(last.mss[k][1].id).entityName, MultiOpEntityPrefix)
        /\ \E i \in 1..Len(last.ops) :
              /\ Holds(k, i)
              /\ \A j \in 1..(k - 1) :
                    ~(/\ Holds(j, i)
                      /\ splitMacaroonId(last.mss[j][1].id).entityName
                             = last.ops[i].Entity)}

\* C16: when the root key store fails for a presented macaroon, or the
\* multi-op store for a multi-op capability, Authorize and Capability fail
\* with an error that is not a DischargeRequiredError, and no slice after
\* the one the store failed for is examined.
C16_StoreErrorsAreHard ==
    /\ (Called /\ Len(last.ops) > 0 /\ last.fault = "rootkey" /\ AuthzKeyed # {})
          => out.kind = "error" /\ out.a.examined = UpTo(First(AuthzKeyed))
    /\ (/\ Called /\ Len(last.ops) > 0 /\ last.fault = "rootkey"
        /\ AuthzKeyed = {} /\ AuthnKeyed # {})
          => /\ out.kind = "error"
             /\ out.a.examined = UpTo(Len(last.mss)) \o UpTo(First(AuthnKeyed))
    /\ (Called /\ Len(last.ops) > 0 /\ last.fault = "multiop" /\ MultiOpKeyed # {})
          => out.kind = "error" /\ out.a.examined = UpTo(First(MultiOpKeyed))

\* C16 witness: the multi-op store failed for the first of two presented
\* capabilities and the second one, valid for a requested operation, was
\* not examined.
C16_Witness ==
    /\ Called /\ last.fault = "multiop"
    /\ Len(last.mss) = 2
    /\ MultiOpKeyed = {1}
    /\ \E i \in 1..Len(last.ops) : Holds(2, i)
    /\ out.kind = "error"
    /\ out.a.examined = <<1>>

\* A presented slice authenticates the request: its id names LoginEntity,
\* the store holds its root key, it verifies, its conditions hold for
\* every action of the requested operations and it declares a user.
Authenticates(ms) ==
    /\ Len(ms) > 0
    /\ splitMacaroonId(ms[1].id).entityName = LoginEntity
    /\ StoreGet(splitMacaroonId(ms[1].id).storageId, "none").err = "none"
    /\ LET v == verifyIgnoringCaveats(ms, RootKey)
       IN /\ ~v.err
          /\ \A i \in 1..Len(v.caveats) :
                CheckFirstPartyCaveat(v.caveats[i],
                    InferDeclaredFromConditions(v.caveats),
                    actionsForOps(last.ops)) # "fail"
          /\ InferDeclaredFromConditions(v.caveats) # ""

\* The user a slice that authenticates declares.
UserOf(ms) == InferDeclaredFromConditions(verifyIgnoringCaveats(ms, RootKey).caveats)

\* The presented slices that authenticate the request.
Authenticating == {k \in 1..Len(last.mss) : Authenticates(last.mss[k])}

C28_CallerOpsUnchanged ==
    Called => out.ops = last.ops

-----------------------------------------------------------------------------
(* auth.Authorizer (src/bug/bug1/main.go) and the HTTP service of its      *)
(* tests (src/auth/service_test.go).                                       *)

LoginOp == Op("login", LoginEntity)

SvcOps == AllOps \cup {LoginOp}

\* macaroonStore.NewMacaroon marshals the storage id and the operations
\* into the macaroon id; MacaroonIdInfo parses them back.
MarshalId(storageId, ops) ==
    <<"{", storageId>>
    \o [k \in 1..2 * Len(ops) |->
            IF k % 2 = 1 THEN ops[(k + 1) \div 2].Entity ELSE ops[k \div 2].Action]
    \o <<"}">>

UnmarshalId(id) ==
    IF Len(id) < 3 \/ Len(id) % 2 # 1 \/ id[1] # "{" \/ id[Len(id)] # "}"
    THEN [err |-> TRUE, Id |-> <<>>, Ops |-> <<>>]
    ELSE [err |-> FALSE, Id |-> id[2],
          Ops |-> [k \in 1..((Len(id) - 3) \div 2) |-> Op(id[2 * k + 2], id[2 * k + 1])]]

\* macaroonStore.NewMacaroon
NewMacaroon(ops, caveats) == Macaroon(MarshalId(StorageId, ops), RootKey, caveats)

\* MacaroonIdInfo once the id is parsed (mid) and the key looked up (k).
idInfoWithKey(mid, k) ==
    IF k.err # "none" THEN [err |-> TRUE, rootKey |-> "", ops |-> <<>>]
    ELSE [err |-> FALSE, rootKey |-> k.key, ops |-> mid.Ops]

idInfoOf(mid) ==
    IF mid.err THEN [err |-> TRUE, rootKey |-> "", ops |-> <<>>]
    ELSE idInfoWithKey(mid, StoreGet(mid.Id, "none"))

\* macaroonStore.MacaroonIdInfo
MacaroonIdInfo(id) == idInfoOf(UnmarshalId(id))

\* ACLGetter.GetACL of the service: the ACL of the operation and the
\* caveats the service wants discharged before it is performed.  Reading
\* e2 is for alice, writing e1 for bob once a third party agrees, reading
\* e1 for everyone; nobody is permitted the login operation.
GetACL(op) ==
    [acl |-> IF op = Op("read", E2) THEN <<"alice">>
             ELSE IF op \in AllOps THEN ACLOf(op) ELSE <<>>,
     caveats |-> IF op = Op("write", E1) THEN <<ThirdPartyCaveat>> ELSE <<>>]

\* allowUser; user is "" when nobody is authenticated.
allowUser(user, acl) ==
    IF user # "" THEN UserAllow(user, acl)
    ELSE \E i \in 1..Len(acl) : acl[i] = Everyone

RECURSIVE allowLoop(_, _, _)
\* aclUserChecker.Allow, from operation i on.
allowLoop(user, ops, i) ==
    IF i > Len(ops) THEN [allowed |-> <<>>, caveats |-> <<>>]
    ELSE LET g == GetACL(ops[i])
             rest == allowLoop(user, ops, i + 1)
         IN [allowed |-> <<allowUser(user, g.acl)>> \o rest.allowed,
             caveats |-> g.caveats \o rest.caveats]

UserCheckerAllow(user, ops) == allowLoop(user, ops, 1)

\* Authorizer.checkConditions
AuthorizerCheckConditions(op, conds) ==
    LET declared == InferDeclaredFromConditions(conds)
    IN IF \E i \in 1..Len(conds) :
              CheckFirstPartyCaveat(conds[i], declared, <<op.Action>>) # "ok"
       THEN [err |-> TRUE, declared |-> ""]
       ELSE [err |-> FALSE, declared |-> declared]

\* Service.NewAuthorizer.  identity is "" for nil; inits counts the runs of
\* initOnceFunc.
NewAuthorizer(mss) ==
    [macaroons |-> mss,
     conditions |-> <<>>,
     identity |-> "",
     authIndexes |-> [op \in SvcOps |-> <<>>],
     inits |-> 0]

\* The end of a round of the loop of initOnceFunc: the conditions of
\* macaroon i and its index under each of its operations.
initRecord(a, i, ops, v) ==
    [a EXCEPT !.conditions[i] = v.caveats,
              !.authIndexes = [op \in SvcOps |->
                  @[op] \o [k \in 1..Cardinality({j \in 1..Len(ops) : ops[j] = op}) |-> i]]]

RECURSIVE initLoop(_, _)
RECURSIVE initInfo(_, _, _)
RECURSIVE initVerified(_, _, _, _)
RECURSIVE initAuthn(_, _, _, _, _)
RECURSIVE initIdentity(_, _, _, _, _)
\* The loop of initOnceFunc over a.macaroons, from index i.
initLoop(a, i) ==
    IF i > Len(a.macaroons) THEN a
    ELSE IF Len(a.macaroons[i]) = 0 THEN initLoop(a, i + 1)
    ELSE initInfo(a, i, MacaroonIdInfo(a.macaroons[i][1].id))

\* One round of the loop once MacaroonIdInfo returned info.
initInfo(a, i, info) ==
    IF info.err THEN initLoop(a, i + 1)
    ELSE initVerified(a, i, info.ops, verifyIgnoringCaveats(a.macaroons[i], info.rootKey))

\* One round of the loop once the macaroon is verified (v).
initVerified(a, i, ops, v) ==
    IF v.err THEN initLoop(a, i + 1)
    ELSE IF Len(ops) = 1 /\ ops[1] = LoginOp
    THEN initAuthn(a, i, ops, v, AuthorizerCheckConditions(LoginOp, v.caveats))
    ELSE initLoop(initRecord(a, i, ops, v), i + 1)

\* One round of the loop for an authentication macaroon whose conditions
\* are checked (c).
initAuthn(a, i, ops, v, c) ==
    IF c.err THEN initLoop(a, i + 1)
    ELSE IF a.identity # "" THEN initLoop(a, i + 1)
    ELSE initIdentity(a, i, ops, v, DeclaredUser(c.declared))

\* One round of the loop once DeclaredIdentity returned u.
initIdentity(a, i, ops, v, u) ==
    IF u.err THEN initLoop(a, i + 1)
    ELSE initLoop(initRecord([a EXCEPT !.identity = u.user], i, ops, v), i + 1)

\* Authorizer.initOnceFunc
initOnceFunc(a) ==
    initLoop([a EXCEPT !.authIndexes = [op \in SvcOps |-> <<>>],
                       !.conditions = [i \in 1..Len(a.macaroons) |-> <<>>],
                       !.inits = @ + 1], 1)

\* Authorizer.init: initOnceFunc runs on the first call only.
init(a) == IF a.inits = 0 THEN initOnceFunc(a) ELSE a

\* The result of allowAny: err is "none", "discharge" (DischargeRequiredError
\* with errOps and errCaveats), "denied" (ErrPermissionDenied) or "panic";
\* authed is <<>> for nil; asked holds the arguments of the calls of
\* UserChecker.Allow.
AllowResult(a, authed, used, err, errOps, errCaveats, asked) ==
    [a |-> a, authed |-> authed, used |-> used, err |-> err,
     errOps |-> errOps, errCaveats |-> errCaveats, asked |-> asked]

RECURSIVE firstPassing(_, _, _, _)
\* The first of the macaroons indexes[k..] whose conditions hold for op; 0
\* when there is none.
firstPassing(a, op, indexes, k) ==
    IF k > Len(indexes) THEN 0
    ELSE IF AuthorizerCheckConditions(op, a.conditions[indexes[k]]).err
    THEN firstPassing(a, op, indexes, k + 1)
    ELSE indexes[k]

\* A first loop that lets no macaroon authorize an operation.
authorizedByNone(a, ops, i) == 0

\* The macaroon that authorizes ops[i] in the first loop of allowAny; 0 when
\* none does.
authorizedBy(a, ops, i) ==
    IF ops[i] = LoginOp /\ Len(ops) > 1 THEN 0
    ELSE firstPassing(a, ops[i], a.authIndexes[ops[i]], 1)

RECURSIVE SelectSeq2(_, _, _)
\* The elements s[i..] whose index satisfies keep, in order.
SelectSeq2(s, keep, i) ==
    IF i > Len(s) THEN <<>>
    ELSE (IF keep[i] THEN <<s[i]>> ELSE <<>>) \o SelectSeq2(s, keep, i + 1)

\* An allowAny that drops the caveats UserChecker.Allow returned.
allowCheckedNoCaveats(a, ops, authed, used, need, asked, r) ==
    IF \A k \in 1..Len(need) : r.allowed[k]
    THEN AllowResult(a, authed, used, "none", <<>>, <<>>, asked)
    ELSE IF a.identity = ""
    THEN AllowResult(a, authed, used, "discharge", <<LoginOp>>, <<IdentityCaveat>>, asked)
    ELSE AllowResult(a, authed, used, "denied", <<>>, <<>>, asked)

\* allowAny once UserChecker.Allow returned r for the operations need.
allowChecked(a, ops, authed, used, need, asked, r) ==
    IF (\A k \in 1..Len(need) : r.allowed[k]) /\ Len(r.caveats) = 0
    THEN AllowResult(a, authed, used, "none", <<>>, <<>>, asked)
    ELSE IF a.identity = ""
    THEN AllowResult(a, authed, used, "discharge", <<LoginOp>>, <<IdentityCaveat>>, asked)
    ELSE IF Len(r.caveats) = 0
    THEN AllowResult(a, authed, used, "denied", <<>>, <<>>, asked)
    ELSE AllowResult(a, authed, used, "discharge", ops, r.caveats, asked)

\* The authed slice after the answers of UserChecker.Allow are copied in.
authedAfter(ops, by, allowed) ==
    [i \in 1..Len(ops) |->
        \/ by[i] # 0
        \/ allowed[Cardinality({j \in 1..i : by[j] = 0})]]

\* allowAny after its first loop: by[i] is the macaroon that authorizes
\* ops[i], 0 when none does, and need the operations none authorizes.
allowNeeded(a, ops, by, used, need) ==
    IF a.identity # "" /\ Len(a.authIndexes[LoginOp]) = 0
    THEN AllowResult(a, <<>>, <<>>, "panic", <<>>, <<>>, <<>>)
    ELSE IF Len(need) = 0
    THEN AllowResult(a, <<>>, used, "none", <<>>, <<>>, <<>>)
    ELSE allowChecked(a, ops,
             authedAfter(ops, by, UserCheckerAllow(a.identity, need).allowed),
             used, need, <<[identity |-> a.identity, ops |-> need]>>,
             UserCheckerAllow(a.identity, need))

\* The macaroons used: those that authorize an operation and the first
\* authentication macaroon of an authenticated request.
usedBy(a, ops, by) ==
    [m \in 1..Len(a.macaroons) |->
        \/ \E i \in 1..Len(ops) : by[i] = m
        \/ /\ a.identity # ""
           /\ Len(a.authIndexes[LoginOp]) > 0
           /\ a.authIndexes[LoginOp][1] = m]

allowAuthorized(a, ops, by) ==
    allowNeeded(a, ops, by, usedBy(a, ops, by),
                SelectSeq2(ops, [i \in 1..Len(ops) |-> by[i] = 0], 1))

\* allowAny once init has run.
allowInited(a, ops) ==
    allowAuthorized(a, ops, [i \in 1..Len(ops) |-> authorizedBy(a, ops, i)])

\* Authorizer.allowAny
allowAny(a0, ops) == allowInited(init(a0), ops)

\* Authorizer.newAuthInfo
newAuthInfo(a, used) ==
    [Identity |-> a.identity,
     Macaroons |-> SelectSeq2(a.macaroons, used, 1)]

allowAnyInfo(r) == [info |-> newAuthInfo(r.a, r.used), r |-> r]

\* Authorizer.AllowAny: the AuthInfo, the authed slice and the error.
AllowAny(a, ops) == allowAnyInfo(allowAny(a, ops))

\* Authorizer.Allow: info is meaningful when err is "none" only.
Allow(a, ops) == AllowAny(a, ops)

\* The lifetimes writeError gives the macaroons it mints.
AuthzExpiry == 1
AuthnExpiry == 2

\* httpAuthChecker.writeError: the macaroon of the discharge-required
\* response; kind is "error" for any other response and "panic" when the
\* handler panics.
writeError(r) ==
    IF r.err # "discharge" THEN [kind |-> "error", Macaroon |-> NoMacaroon, authn |-> FALSE]
    ELSE IF Len(r.errCaveats) = 0
    THEN [kind |-> "panic", Macaroon |-> NoMacaroon, authn |-> FALSE]
    ELSE IF Len(r.errOps) = 1 /\ r.errOps[1] = LoginOp
    THEN [kind |-> "discharge", authn |-> TRUE,
          Macaroon |-> NewMacaroon(r.errOps,
                          Append(r.errCaveats, TimeBeforeCaveat(now + AuthnExpiry)))]
    ELSE [kind |-> "discharge", authn |-> FALSE,
          Macaroon |-> NewMacaroon(r.errOps,
                          Append(r.errCaveats, TimeBeforeCaveat(now + AuthzExpiry)))]

\* The response once writeError made it (w).
servedError(res, w) ==
    [kind |-> w.kind, err |-> res.r.err, info |-> res.info, r |-> res.r,
     Macaroon |-> w.Macaroon]

\* ServeHTTP once Allow returned res.
served(res) ==
    IF res.r.err = "panic"
    THEN [kind |-> "panic", err |-> "panic", info |-> res.info, r |-> res.r,
          Macaroon |-> NoMacaroon]
    ELSE IF res.r.err = "none"
    THEN [kind |-> "ok", err |-> "none", info |-> res.info, r |-> res.r,
          Macaroon |-> NoMacaroon]
    ELSE servedError(res, writeError(res.r))

\* httpAuthChecker.ServeHTTP for a request of the given operations: kind is
\* "ok" when the handler ran, else the kind of writeError; err is the
\* error of Allow.
ServeHTTP(mss, ops) == served(Allow(NewAuthorizer(mss), ops))

-----------------------------------------------------------------------------
(* The clients of the HTTP service.  The macaroons they hold when the      *)
(* model starts were minted by the service at time 0: an authentication    *)
(* macaroon discharged for each user, a capability for each of two         *)
(* operations, and a slice with a forged signature.                        *)

SvcLogin(user) ==
    Login(NewMacaroon(<<LoginOp>>, <<IdentityCaveat, TimeBeforeCaveat(AuthnExpiry)>>), user)

SvcCapability(ops) == <<NewMacaroon(ops, <<TimeBeforeCaveat(AuthzExpiry)>>)>>

SvcJar ==
    {SvcLogin(u) : u \in Users}
    \cup {SvcCapability(<<Op("write", E1)>>),
          SvcCapability(<<Op("read", E2)>>),
          <<[NewMacaroon(<<Op("write", E1)>>, <<>>) EXCEPT !.sig = "forged"]>>,
          EmptySlice}

SvcPresented == SeqsUpTo(SvcJar, MaxMss)
SvcRequests  == SeqsUpTo(SvcOps, MaxOps)

\* given tells which response handed the client the macaroon it presents
\* first, when the call redeems one.
SvcCall(name, mss, ops, o) ==
    [call |-> name, mss |-> mss, ops |-> ops, caveats |-> <<>>,
     fault |-> "none", now |-> now, out |-> o,
     given |-> IF name = "Redeem" THEN issued ELSE NotIssued]

\* The service responds: the client reads the response and keeps the
\* macaroon it is handed.
SvcRespond(name, mss, ops, o) ==
    /\ last' = SvcCall(name, mss, ops, o)
    /\ minted' = Handed(o)
    /\ issued' = IF o.Macaroon # NoMacaroon
                 THEN [call |-> "ServeHTTP", kind |-> o.kind, ops |-> o.r.errOps,
                       now |-> now, req |-> ops, identity |-> o.r.a.identity,
                       need |-> o.r.asked[1].ops]
                 ELSE IF name = "Redeem" THEN issued ELSE NotIssued
    /\ tpChecked' = IF o.Macaroon = NoMacaroon /\ name = "Redeem" THEN tpChecked ELSE 0

\* A client sends a request with macaroons it holds.
SvcRequest ==
    /\ last.call = "none"
    /\ minted = <<>>
    /\ \E mss \in SvcPresented, ops \in SvcRequests :
         SvcRespond("ServeHTTP", mss, ops, ServeHTTP(mss, ops))
    /\ UNCHANGED <<now, multiOps>>

\* The client sends a request with the macaroon the service handed it, on
\* its own or next to one of the macaroons it holds.
SvcRedeem ==
    /\ last.call = "none"
    /\ minted # <<>>
    /\ \E extra \in SeqsUpTo(SvcJar, 1), ops \in SvcRequests :
         SvcRespond("Redeem", minted \o extra, ops, ServeHTTP(minted \o extra, ops))
    /\ UNCHANGED <<now, multiOps>>

\* The third parties discharge the caveats of the macaroon the client was
\* handed; tpChecked counts the discharges of third parties other than the
\* identity service.
SvcDischargeAll ==
    /\ last.call = "none"
    /\ minted # <<>>
    /\ Len(minted[1]) = 1
    /\ \E i \in 1..Len(minted[1][1].cavs) : minted[1][1].cavs[i].Location # ""
    /\ \E user \in Users :
         minted' = <<(<<minted[1][1]>> \o Discharges(minted[1][1], user))>>
    /\ tpChecked' = tpChecked + Cardinality({i \in 1..Len(minted[1][1].cavs) :
                                            minted[1][1].cavs[i].Location = ThirdParty})
    /\ UNCHANGED <<now, multiOps, issued, last>>

SvcDrop ==
    /\ last.call = "none"
    /\ minted # <<>>
    /\ minted' = <<>>
    /\ issued' = NotIssued
    /\ tpChecked' = 0
    /\ UNCHANGED <<now, multiOps, last>>

SvcSettle ==
    /\ last.call # "none"
    /\ last' = NoCall
    /\ issued' = IF minted = <<>> THEN NotIssued ELSE issued
    /\ tpChecked' = IF minted = <<>> THEN 0 ELSE tpChecked
    /\ UNCHANGED <<now, multiOps, minted>>

SvcNext == SvcRequest \/ SvcRedeem \/ SvcDischargeAll \/ SvcDrop \/ SvcSettle \/ Tick

SvcSpec == Init /\ [][SvcNext]_vars

-----------------------------------------------------------------------------
(* Properties of Authorizer.Allow and of the HTTP service built on it.     *)
(*                                                                         *)
(* They are stated of the response the client of the service is reading.   *)

\* The identity the request is authenticated as, "" when it is not.
Identity == out.r.a.identity

\* A presented slice is a valid capability for the operation i of the
\* request: the store knows its id, it verifies against the root key, its
\* id names the operation and its conditions hold for the operation.
SvcCovers(ms, i) ==
    /\ Len(ms) > 0
    /\ ~(last.ops[i] = LoginOp /\ Len(last.ops) > 1)
    /\ LET info == MacaroonIdInfo(ms[1].id)
           v    == verifyIgnoringCaveats(ms, info.rootKey)
       IN /\ ~info.err
          /\ ~v.err
          /\ last.ops[i] \in Range(info.ops)
          /\ info.ops = <<LoginOp>> => Identity # ""
          /\ \A k \in 1..Len(v.caveats) :
                CheckFirstPartyCaveat(v.caveats[k],
                    InferDeclaredFromConditions(v.caveats), <<last.ops[i].Action>>) = "ok"

\* The operations of the request no presented capability covers.
SvcNeed == {i \in 1..Len(last.ops) : \A k \in 1..Len(last.mss) : ~SvcCovers(last.mss[k], i)}

\* The ACL of an operation permits the identity of the request.
Permitted(op) ==
    \/ Everyone \in Range(GetACL(op).acl)
    \/ Identity # "" /\ Identity \in Range(GetACL(op).acl)

\* C2: when the request is authenticated and the ACL denies its identity
\* an operation no macaroon authorizes, Allow returns ErrPermissionDenied,
\* whatever caveats the user checker returns with its answer: never
\* success, never a DischargeRequiredError.
C2_DeniedWhenAuthenticated ==
    (/\ Called
     /\ Identity # ""
     /\ \E i \in SvcNeed : ~Permitted(last.ops[i]))
    => out.err = "denied"

\* C9 as stated: a request for several operations, each of them covered by
\* a presented valid capability or permitted to the request's identity by
\* its ACL, is authorized.
C9_CoveredRequestAuthorized ==
    (/\ Called
     /\ Len(last.ops) > 1
     /\ \A i \in SvcNeed : Permitted(last.ops[i]))
    => out.kind = "ok"

\* C9 amended: such a request is authorized provided the user checker
\* attaches no caveat to the operations no capability covers; the macaroons
\* the AuthInfo names are presented ones.
C9_CoveredRequestAuthorizedNoCaveats ==
    (/\ Called
     /\ Len(last.ops) > 1
     /\ \A i \in SvcNeed : Permitted(last.ops[i])
     /\ \A i \in SvcNeed : GetACL(last.ops[i]).caveats = <<>>)
    => /\ out.kind = "ok"
       /\ out.info.Identity = Identity
       /\ Range(out.info.Macaroons) \subseteq Range(last.mss)

\* C9 witness: a request of two operations was authorized, one by the
\* capability presented and the other by the ACL for the user the request
\* is authenticated as.
C9_Witness ==
    /\ Called /\ Len(last.ops) = 2
    /\ Identity # ""
    /\ SvcNeed = {1}
    /\ Everyone \notin Range(GetACL(last.ops[1]).acl)
    /\ Permitted(last.ops[1])
    /\ GetACL(last.ops[1]).caveats = <<>>
    /\ out.kind = "ok"

RECURSIVE CaveatsFor(_)
\* The caveats the user checker attaches to the operations from i on that
\* no capability covers.
CaveatsFor(i) ==
    IF i > Len(last.ops) THEN <<>>
    ELSE (IF i \in SvcNeed THEN GetACL(last.ops[i]).caveats ELSE <<>>) \o CaveatsFor(i + 1)

\* C10: a request of an authenticated identity the ACLs permit every
\* operation no capability covers, with a caveat attached to one of them,
\* is answered with a DischargeRequiredError that carries the requested
\* operations and the caveats, and with a macaroon for them; once that
\* macaroon is presented with its discharges, before it expires, the same
\* request is authorized without the user checker being asked again, the
\* third party having discharged each caveat once.
C10_ThirdPartyCaveatRoundTrip ==
    /\ (/\ Called
        /\ Identity # ""
        /\ \A i \in SvcNeed : Permitted(last.ops[i])
        /\ CaveatsFor(1) # <<>>)
       => /\ out.err = "discharge"
          /\ out.kind = "discharge"
          /\ out.r.errOps = last.ops
          /\ out.r.errCaveats = CaveatsFor(1)
          /\ UnmarshalId(out.Macaroon.id).Ops = last.ops
          /\ Range(CaveatsFor(1)) \subseteq Range(out.Macaroon.cavs)
    /\ (/\ last.call = "Redeem"
        /\ last.given.kind = "discharge"
        /\ last.given.identity # ""
        /\ \A k \in 1..Len(last.given.need) :
              \/ Everyone \in Range(GetACL(last.given.need[k]).acl)
              \/ last.given.identity \in Range(GetACL(last.given.need[k]).acl)
        /\ last.given.ops = last.given.req
        /\ last.ops = last.given.req
        /\ Len(last.mss[1]) > 1
        /\ last.now < last.given.now + AuthzExpiry)
       => /\ out.kind = "ok"
          /\ out.r.asked = <<>>
          /\ tpChecked = Len(last.mss[1]) - 1

\* C10 witness: the request a DischargeRequiredError with one third party
\* caveat answered was authorized when presented with the macaroon and its
\* discharge, the third party having been consulted once.
C10_Witness ==
    /\ last.call = "Redeem"
    /\ last.given.kind = "discharge"
    /\ last.given.identity = "bob"
    /\ last.given.ops = last.given.req
    /\ last.ops = last.given.req
    /\ Len(last.mss) = 1
    /\ Len(last.mss[1]) = 2
    /\ ThirdPartyCaveat \in Range(last.mss[1][1].cavs)
    /\ out.kind = "ok"
    /\ tpChecked = 1

\* C14: a request whose operations include LoginOp is authorized only when
\* an identity was established from an authentication macaroon, and no
\* macaroon whose id combines LoginOp with other operations authorizes
\* LoginOp.
C14_LoginOpNeedsIdentity ==
    (Called /\ LoginOp \in Range(last.ops)) =>
        /\ out.kind = "ok" => Identity # ""
        /\ \A i \in 1..Len(last.ops) :
              (last.ops[i] = LoginOp /\ authorizedBy(out.r.a, last.ops, i) # 0)
                  => MacaroonIdInfo(
                         last.mss[authorizedBy(out.r.a, last.ops, i)][1].id).ops
                     = <<LoginOp>>

\* C15: AllowAny returns a nil error and a nil slice when every requested
\* operation is allowed, by macaroons or by the user checker; when it
\* returns an error the slice has one element for each requested operation
\* that tells whether a macaroon or the user checker allowed it; the
\* AuthInfo names the identity and presented macaroons in every case.
C15_AllowAnyResults ==
    (Called /\ out.err # "panic") =>
        /\ out.err = "none" => out.r.authed = <<>>
        /\ out.err # "none" =>
              /\ Len(out.r.authed) = Len(last.ops)
              /\ \A i \in 1..Len(last.ops) :
                    out.r.authed[i] <=> (i \notin SvcNeed \/ Permitted(last.ops[i]))
        /\ out.info.Identity = Identity
        /\ Range(out.info.Macaroons) \subseteq Range(last.mss)

\* A presented slice is the authentication macaroon of the request: its id
\* names LoginOp alone, it verifies, its conditions hold and it declares
\* the identity of the request.
SvcAuthenticates(ms) ==
    /\ Len(ms) > 0
    /\ Identity # ""
    /\ LET info == MacaroonIdInfo(ms[1].id)
           v    == verifyIgnoringCaveats(ms, info.rootKey)
       IN /\ ~info.err
          /\ ~v.err
          /\ info.ops = <<LoginOp>>
          /\ ~AuthorizerCheckConditions(LoginOp, v.caveats).err
          /\ InferDeclaredFromConditions(v.caveats) = Identity

\* C25: the macaroon that authorizes a requested operation is the first
\* presented one that is a valid capability for it, and AuthInfo.Macaroons
\* holds only macaroons used for the authorization: each of them is a valid
\* capability for a requested operation or the authentication macaroon,
\* never a macaroon that does not verify or whose caveats fail.
C25_OnlyUsedMacaroonsListed ==
    (Called /\ out.err # "panic") =>
        /\ \A i \in 1..Len(last.ops) :
              authorizedBy(out.r.a, last.ops, i) # 0 =>
                  /\ SvcCovers(last.mss[authorizedBy(out.r.a, last.ops, i)], i)
                  /\ \A l \in 1..(authorizedBy(out.r.a, last.ops, i) - 1) :
                        ~SvcCovers(last.mss[l], i)
        /\ \A m \in 1..Len(out.info.Macaroons) :
              \/ SvcAuthenticates(out.info.Macaroons[m])
              \/ \E i \in 1..Len(last.ops) : SvcCovers(out.info.Macaroons[m], i)

\* C29: when the request is authenticated, authIndexes[LoginOp] is not
\* empty and its first entry is the index of the presented macaroon that
\* declared the identity, so allowAny does not panic and the macaroon it
\* marks used for authentication is the authenticating one.
C29_LoginIndexIsAuthenticator ==
    (Called /\ Identity # "") =>
        /\ out.err # "panic"
        /\ Len(out.r.a.authIndexes[LoginOp]) > 0
        /\ SvcAuthenticates(last.mss[out.r.a.authIndexes[LoginOp][1]])
        /\ out.r.used[out.r.a.authIndexes[LoginOp][1]]

\* The part of C29 that holds: an authenticated request has an entry in
\* authIndexes[LoginOp] and allowAny does not panic.
C29_NoPanic ==
    (Called /\ Identity # "") =>
        /\ out.err # "panic"
        /\ Len(out.r.a.authIndexes[LoginOp]) > 0

\* A presented slice that counts for nothing: it is empty, the store does
\* not know its id, it does not verify, or its conditions fail for every
\* operation of the request and for the login operation.
SvcInvalid(ms) ==
    \/ Len(ms) = 0
    \/ MacaroonIdInfo(ms[1].id).err
    \/ verifyIgnoringCaveats(ms, MacaroonIdInfo(ms[1].id).rootKey).err
    \/ \A op \in Range(last.ops) \cup {LoginOp} :
          AuthorizerCheckConditions(op,
              verifyIgnoringCaveats(ms, MacaroonIdInfo(ms[1].id).rootKey).caveats).err

\* The presented slices without the k-th.
SvcWithout(k) == SubSeq(last.mss, 1, k - 1) \o SubSeq(last.mss, k + 1, Len(last.mss))

\* Two responses are the same outcome: the same error of Allow, and on
\* success the same identity and the same macaroons used.
SvcSameOutcome(o, p) ==
    /\ o.err = p.err
    /\ o.err = "none" => /\ o.info.Identity = p.info.Identity
                         /\ o.info.Macaroons = p.info.Macaroons

\* C17: a presented slice that is empty, whose root key is not found, that
\* does not verify or whose caveats fail does not change the outcome of
\* AllowAny: the error, the identity and the macaroons used are those of
\* the same request made without the slice.
C17_InvalidSlicesIgnored ==
    Called => \A k \in 1..Len(last.mss) :
        SvcInvalid(last.mss[k]) =>
            SvcSameOutcome(out, ServeHTTP(SvcWithout(k), last.ops))

-----------------------------------------------------------------------------
(* NewMultiOpEntity (src/auth/entity.go) on its own: a caller holds a      *)
(* list of operations, with duplicates and in any order, and calls         *)
(* NewMultiOpEntity on it.                                                 *)

MaxEntityOps == 4

\* An entity whose name holds newline characters.
NewlineEntity == E1 \o <<"\n", "write", "\n">> \o E2

EntityOps == [Action : Actions, Entity : Entities] \cup {Op("read", NewlineEntity)}

\* The caller holds the list ops and has not called.
EntityIdle(ops) ==
    [call |-> "none", ops |-> ops, out |-> [name |-> <<>>, ops |-> <<>>, arr |-> ops]]

EntityInit ==
    /\ now = 0
    /\ multiOps = <<>>
    /\ minted = <<>>
    /\ issued = NotIssued
    /\ tpChecked = 0
    /\ \E ops \in SeqsUpTo(EntityOps, MaxEntityOps) : last = EntityIdle(ops)

\* The caller calls NewMultiOpEntity on the list it holds.
CallNewMultiOpEntity ==
    /\ last.call = "none"
    /\ last' = [call |-> "NewMultiOpEntity", ops |-> last.ops,
                out |-> NewMultiOpEntity(last.ops)]
    /\ UNCHANGED <<now, multiOps, minted, issued, tpChecked>>

\* The caller has read the result and holds its list again.
EntityReturn ==
    /\ last.call = "NewMultiOpEntity"
    /\ last' = EntityIdle(last.ops)
    /\ UNCHANGED <<now, multiOps, minted, issued, tpChecked>>

EntityNext == CallNewMultiOpEntity \/ EntityReturn

EntitySpec == EntityInit /\ [][EntityNext]_vars

\* The lists that hold the elements of ops, each as many times, in any
\* order.
OpPermutations(ops) ==
    {p \in [1..Len(ops) -> Range(ops)] :
        \A x \in Range(ops) :
            Cardinality({i \in 1..Len(ops) : p[i] = x})
            = Cardinality({i \in 1..Len(ops) : ops[i] = x})}

\* The order of operations by entity, then by action.
OpBefore(a, b) ==
    \/ SeqLess(a.Entity, b.Entity)
    \/ a.Entity = b.Entity /\ StrRank(a.Action) < StrRank(b.Action)

\* C18: NewMultiOpEntity returns, for a list of operations and for every
\* permutation of it, the same name, which is the prefix multi- followed by
\* a digest, and the same list of operations, which holds every operation
\* of the argument once, in the order of (entity, action).
C18_MultiOpEntityCanonical ==
    last.call = "NewMultiOpEntity" =>
        /\ HasPrefix(out.name, MultiOpEntityPrefix \o <<"-">>)
        /\ Range(out.ops) = Range(last.ops)
        /\ \A i, j \in 1..Len(out.ops) : i < j => OpBefore(out.ops[i], out.ops[j])
        /\ \A p \in OpPermutations(last.ops) :
              /\ NewMultiOpEntity(p).name = out.name
              /\ NewMultiOpEntity(p).ops = out.ops

\* The call was made on four operations that are not in order, one of them
\* twice.
C18_Witness ==
    /\ last.call = "NewMultiOpEntity"
    /\ Len(last.ops) = MaxEntityOps
    /\ Len(out.ops) = 3
    /\ \E i \in 1..3 : OpBefore(last.ops[i + 1], last.ops[i])

\* C30: two lists of operations whose sets of operations differ are given
\* different names by NewMultiOpEntity: the bytes written to the digest
\* for one are not those written for the other, also when the name of an
\* entity holds newline characters.
C30_StreamDeterminesOps ==
    last.call = "NewMultiOpEntity" =>
        \A other \in SeqsUpTo(EntityOps, 2) :
            Range(other) # Range(last.ops)
                => NewMultiOpEntity(other).name # out.name

-----------------------------------------------------------------------------
(* caveatSquasher (src/bug/bug1/main.go).  Here a condition is the string  *)
(* of a first party caveat, a sequence of tokens in which " " is the       *)
(* space character, and a time is a number of years since the zero time.   *)

MaxAdds == 4

\* checkers.ParseCaveat: the condition name and its argument.
ParseCaveat(cav) ==
    IF cav = <<>> THEN [err |-> TRUE, cond |-> <<>>, args |-> <<>>]
    ELSE IF IndexByte(cav, " ") = 0 THEN [err |-> FALSE, cond |-> cav, args |-> <<>>]
    ELSE IF IndexByte(cav, " ") = 1 THEN [err |-> TRUE, cond |-> <<>>, args |-> <<>>]
    ELSE [err |-> FALSE,
          cond |-> SubSeq(cav, 1, IndexByte(cav, " ") - 1),
          args |-> SubSeq(cav, IndexByte(cav, " ") + 1, Len(cav))]

\* time.Parse(time.RFC3339Nano, args): two of the strings name the same
\* instant in different zones; t is 0 for the zero time.
TimeParse(args) ==
    IF args = <<"0001-01-01T00:00:00Z">> THEN [err |-> FALSE, t |-> 0]
    ELSE IF args = <<"2021-01-01T00:00:00Z">> THEN [err |-> FALSE, t |-> 1]
    ELSE IF args = <<"2021-01-01T01:00:00+01:00">> THEN [err |-> FALSE, t |-> 1]
    ELSE IF args = <<"2022-01-01T00:00:00Z">> THEN [err |-> FALSE, t |-> 2]
    ELSE IF args = <<"2023-01-01T00:00:00Z">> THEN [err |-> FALSE, t |-> 3]
    ELSE IF args = <<"2024-01-01T00:00:00Z">> THEN [err |-> FALSE, t |-> 4]
    ELSE IF args = <<"2025-01-01T00:00:00Z">> THEN [err |-> FALSE, t |-> 5]
    ELSE [err |-> TRUE, t |-> 0]

\* t.UTC().Format(time.RFC3339Nano)
TimeFormat(t) ==
    IF t = 0 THEN "0001-01-01T00:00:00Z"
    ELSE IF t = 1 THEN "2021-01-01T00:00:00Z"
    ELSE IF t = 2 THEN "2022-01-01T00:00:00Z"
    ELSE IF t = 3 THEN "2023-01-01T00:00:00Z"
    ELSE IF t = 4 THEN "2024-01-01T00:00:00Z"
    ELSE "2025-01-01T00:00:00Z"

\* checkers.TimeBeforeCaveat(t).Condition
TimeBeforeCondition(t) == <<"time-before", " ", TimeFormat(t)>>

\* var squasher caveatSquasher; expiry is 0 for the zero time.
NewSquasher == [expiry |-> 0, conds |-> <<>>]

\* A mutation of add0Expiry that keeps a time-before condition whose time
\* is the expiry already computed.
add0ExpiryRepeated(c, et) ==
    IF et.err \/ et.t = 0 \/ et.t = c.expiry THEN [c |-> c, keep |-> TRUE]
    ELSE IF c.expiry = 0 \/ et.t < c.expiry
    THEN [c |-> [c EXCEPT !.expiry = et.t], keep |-> FALSE]
    ELSE [c |-> c, keep |-> FALSE]

\* The time-before case of add0 once the time is parsed (et).
add0Expiry(c, et) ==
    IF et.err \/ et.t = 0 THEN [c |-> c, keep |-> TRUE]
    ELSE IF c.expiry = 0 \/ et.t < c.expiry
    THEN [c |-> [c EXCEPT !.expiry = et.t], keep |-> FALSE]
    ELSE [c |-> c, keep |-> FALSE]

\* add0 once the condition is parsed (p).
add0Parsed(c, p) ==
    IF p.err THEN [c |-> c, keep |-> TRUE]
    ELSE IF p.cond = <<"time-before">> THEN add0Expiry(c, TimeParse(p.args))
    ELSE IF p.cond \in {<<"allow">>, <<"deny">>, <<"declared">>}
    THEN [c |-> c, keep |-> FALSE]
    ELSE [c |-> c, keep |-> TRUE]

\* A mutation of add0 that takes the expiry of the last time-before added.
add0LastExpiry(c, cond) ==
    IF ~ParseCaveat(cond).err /\ ParseCaveat(cond).cond = <<"time-before">>
       /\ ~TimeParse(ParseCaveat(cond).args).err
       /\ TimeParse(ParseCaveat(cond).args).t # 0
    THEN [c |-> [c EXCEPT !.expiry = TimeParse(ParseCaveat(cond).args).t],
          keep |-> FALSE]
    ELSE add0Parsed(c, ParseCaveat(cond))

\* caveatSquasher.add0: the squasher and whether the condition is kept.
add0(c, cond) == add0Parsed(c, ParseCaveat(cond))

\* add once add0 returned r.
addKept(r, cond) ==
    IF r.keep THEN [r.c EXCEPT !.conds = Append(@, cond)] ELSE r.c

\* A mutation of add that does not look for the condition in conds.
addAgain(c, cond) == addKept(add0(c, cond), cond)

\* caveatSquasher.add
add(c, cond) ==
    IF \E i \in 1..Len(c.conds) : c.conds[i] = cond THEN c
    ELSE addKept(add0(c, cond), cond)

RECURSIVE insertString(_, _)
insertString(x, sorted) ==
    IF sorted = <<>> THEN <<x>>
    ELSE IF SeqLess(x, Head(sorted)) THEN <<x>> \o sorted
    ELSE <<Head(sorted)>> \o insertString(x, Tail(sorted))

RECURSIVE SortStrings(_)
\* sort.Strings
SortStrings(conds) ==
    IF conds = <<>> THEN <<>> ELSE insertString(Head(conds), SortStrings(Tail(conds)))

RECURSIVE finalLoop(_, _, _, _)
\* The loop of final over conds[1:], from index i of the slice: prev is
\* the last condition kept and j the number of conditions kept.
finalLoop(conds, i, prev, j) ==
    IF i > Len(conds) THEN conds
    ELSE IF conds[i] # prev
    THEN finalLoop([conds EXCEPT ![j + 1] = conds[i]], i + 1, conds[i], j + 1)
    ELSE finalLoop(conds, i + 1, prev, j)

\* final once the expiry is appended and the conditions are sorted.
finalSorted(c, sorted) ==
    [nil |-> FALSE, conds |-> finalLoop(sorted, 2, sorted[1], 1),
     c |-> [c EXCEPT !.conds = finalLoop(sorted, 2, sorted[1], 1)]]

\* final once the expiry is appended (c).
finalAppended(c) ==
    IF Len(c.conds) = 0 THEN [nil |-> TRUE, conds |-> <<>>, c |-> c]
    ELSE finalSorted(c, SortStrings(c.conds))

\* caveatSquasher.final: the slice returned, nil or not, and the squasher
\* as the call leaves it.
final(c) ==
    IF c.expiry # 0
    THEN finalAppended([c EXCEPT !.conds = Append(@, TimeBeforeCondition(c.expiry))])
    ELSE finalAppended(c)

\* The conditions a caller adds: two that do not parse, two of kinds the
\* squasher does not know, an allow, a deny and a declared condition, and
\* time-before conditions: one with a time that does not parse, one with
\* the zero time, two for the same instant and one for a later instant.
SquashConds ==
    {<<>>, <<" ", "never">>, <<"never">>, <<"needs-review">>,
     <<"allow", " ", "read">>, <<"deny", " ", "write">>,
     <<"declared", " ", "username", " ", "bob">>,
     <<"time-before", " ", "soon">>,
     <<"time-before", " ", "0001-01-01T00:00:00Z">>,
     <<"time-before", " ", "2021-01-01T00:00:00Z">>,
     <<"time-before", " ", "2021-01-01T01:00:00+01:00">>,
     <<"time-before", " ", "2022-01-01T00:00:00Z">>}

\* The caller of a squasher: the conditions it added so far, the squasher,
\* and the result of final once it called it.
Squashing(call, added, c, res) ==
    [call |-> call, added |-> added, c |-> c, out |-> res]

SquashInit ==
    /\ now = 0
    /\ multiOps = <<>>
    /\ minted = <<>>
    /\ issued = NotIssued
    /\ tpChecked = 0
    /\ last = Squashing("none", <<>>, NewSquasher,
                        [nil |-> TRUE, conds |-> <<>>, c |-> NewSquasher])

SquashAdd ==
    /\ last.call # "final"
    /\ Len(last.added) < MaxAdds
    /\ \E cond \in SquashConds :
         last' = Squashing("add", Append(last.added, cond), add(last.c, cond), last.out)
    /\ UNCHANGED <<now, multiOps, minted, issued, tpChecked>>

SquashFinal ==
    /\ last.call # "final"
    /\ last' = Squashing("final", last.added, final(last.c).c, final(last.c))
    /\ UNCHANGED <<now, multiOps, minted, issued, tpChecked>>

\* The caller declares a new squasher.
SquashNew ==
    /\ last.call = "final"
    /\ last' = Squashing("none", <<>>, NewSquasher,
                         [nil |-> TRUE, conds |-> <<>>, c |-> NewSquasher])
    /\ UNCHANGED <<now, multiOps, minted, issued, tpChecked>>

SquashNext == SquashAdd \/ SquashFinal \/ SquashNew

SquashSpec == SquashInit /\ [][SquashNext]_vars

-----------------------------------------------------------------------------
(* Properties of caveatSquasher, stated of the result of final.            *)

Added == Range(last.added)

\* The name of a condition, <<>> when it does not parse.
KindOf(cond) == IF ParseCaveat(cond).err THEN <<>> ELSE ParseCaveat(cond).cond

IsTimeBefore(cond) == KindOf(cond) = <<"time-before">>

\* The time of a time-before condition parses.
HasTime(cond) == IsTimeBefore(cond) /\ ~TimeParse(ParseCaveat(cond).args).err

TimeOf(cond) == TimeParse(ParseCaveat(cond).args).t

\* The expiries added: the times of the time-before conditions whose time
\* parses; and those of them that are not the zero time.
Expiries      == {TimeOf(cond) : cond \in {x \in Added : HasTime(x)}}
RealExpiries  == Expiries \ {0}

Earliest(S) == CHOOSE t \in S : \A u \in S : t <= u

\* The indexes of the time-before conditions of the result.
TimeBefores == {k \in 1..Len(out.conds) : IsTimeBefore(out.conds[k])}

\* C19 as the specification states it: when time-before conditions were
\* added for two different times, among any other conditions, the result of
\* final holds exactly one time-before condition, for the earliest of the
\* times added.
C19_OneTimeBefore ==
    (last.call = "final" /\ Cardinality(Expiries) >= 2) =>
        /\ Cardinality(TimeBefores) = 1
        /\ \A k \in TimeBefores :
              HasTime(out.conds[k]) /\ TimeOf(out.conds[k]) = Earliest(Expiries)

\* C19, amended: when a time-before condition was added whose time parses
\* and is not the zero time, the result of final holds exactly one
\* time-before condition of that sort, for the earliest such time added;
\* its other time-before conditions are the added ones whose time does not
\* parse or is the zero time.
C19_OneValidTimeBefore ==
    (last.call = "final" /\ RealExpiries # {}) =>
        /\ Cardinality({k \in TimeBefores :
                           HasTime(out.conds[k]) /\ TimeOf(out.conds[k]) # 0}) = 1
        /\ TimeBeforeCondition(Earliest(RealExpiries)) \in Range(out.conds)
        /\ \A k \in TimeBefores :
              \/ out.conds[k] = TimeBeforeCondition(Earliest(RealExpiries))
              \/ /\ out.conds[k] \in Added
                 /\ ~HasTime(out.conds[k]) \/ TimeOf(out.conds[k]) = 0

\* The later of two times was added before the earlier, which was not
\* written in UTC, with a condition between them that is kept.
C19_Witness ==
    /\ last.call = "final"
    /\ Len(last.added) >= 3
    /\ last.added[1] = <<"time-before", " ", "2022-01-01T00:00:00Z">>
    /\ last.added[2] = <<"never">>
    /\ last.added[3] = <<"time-before", " ", "2021-01-01T01:00:00+01:00">>
    /\ <<"time-before", " ", "2021-01-01T00:00:00Z">> \in Range(out.conds)

\* conds is in lexicographic order and holds no condition twice.
StrictlySorted(conds) ==
    \A i, j \in 1..Len(conds) : i < j => SeqLess(conds[i], conds[j])

Dropped == {<<"time-before">>, <<"allow">>, <<"deny">>, <<"declared">>}

\* C20 as the specification states it: the result of final is, in
\* lexicographic order and without duplicates, the added conditions that
\* do not parse, the added conditions of a kind other than time-before,
\* allow, deny and declared, and one time-before condition for the
\* earliest expiry added, if any; it is nil when there is none of these.
C20_FinalConditions ==
    last.call = "final" =>
        /\ StrictlySorted(out.conds)
        /\ Range(out.conds) =
              {cond \in Added : KindOf(cond) \notin Dropped}
              \cup (IF Expiries = {} THEN {}
                    ELSE {TimeBeforeCondition(Earliest(Expiries))})
        /\ \A k \in 1..Len(out.conds) :
              KindOf(out.conds[k]) \notin {<<"allow">>, <<"deny">>, <<"declared">>}
        /\ out.nil <=> Len(out.conds) = 0

\* C20, amended: the result of final also holds, as they were added, the
\* time-before conditions whose time does not parse or is the zero time,
\* and its one other time-before condition is for the earliest of the
\* other expiries added, written in UTC.
C20_FinalConditionsKept ==
    last.call = "final" =>
        /\ StrictlySorted(out.conds)
        /\ Range(out.conds) =
              {cond \in Added : KindOf(cond) \notin Dropped}
              \cup {cond \in Added :
                       IsTimeBefore(cond) /\ (~HasTime(cond) \/ TimeOf(cond) = 0)}
              \cup (IF RealExpiries = {} THEN {}
                    ELSE {TimeBeforeCondition(Earliest(RealExpiries))})
        /\ \A k \in 1..Len(out.conds) :
              KindOf(out.conds[k]) \notin {<<"allow">>, <<"deny">>, <<"declared">>}
        /\ out.nil <=> Len(out.conds) = 0

\* A condition that is kept was added twice, next to an allow condition
\* and a time-before condition.
C20_Witness ==
    /\ last.call = "final"
    /\ Len(last.added) = MaxAdds
    /\ <<"allow", " ", "read">> \in Added
    /\ \E i, j \in 1..Len(last.added) : i < j /\ last.added[i] = last.added[j]
                                         /\ last.added[i] \in Range(out.conds)
    /\ Len(out.conds) = 2
    /\ \E k \in 1..2 : HasTime(out.conds[k])

RECURSIVE AddAll(_, _, _)
\* The squasher after add was called with conds[i], conds[i+1], ...
AddAll(c, conds, i) ==
    IF i > Len(conds) THEN c ELSE AddAll(add(c, conds[i]), conds, i + 1)

\* The result of final for a new squasher given the conditions conds.
Squashed(conds) == final(AddAll(NewSquasher, conds, 1))

\* conds without its k-th element.
WithoutAdd(conds, k) == SubSeq(conds, 1, k - 1) \o SubSeq(conds, k + 1, Len(conds))

\* C21: when the same condition was added twice, at any two positions, the
\* result of final is the one of the same calls of add with either of the
\* two left out.
C21_AddIdempotent ==
    last.call = "final" =>
        \A i, j \in 1..Len(last.added) :
            (i # j /\ last.added[i] = last.added[j]) =>
                /\ Squashed(WithoutAdd(last.added, j)).conds = out.conds
                /\ Squashed(WithoutAdd(last.added, j)).nil = out.nil

\* A time-before condition and a condition that is kept were both added
\* twice, not next to each other.
C21_Witness ==
    /\ last.call = "final"
    /\ Len(last.added) = 4
    /\ last.added[1] = last.added[3]
    /\ last.added[2] = last.added[4]
    /\ HasTime(last.added[1]) /\ TimeOf(last.added[1]) # 0
    /\ last.added[2] \in Range(out.conds)

-----------------------------------------------------------------------------
(* memMultiOpStore (src/auth/entity.go) on its own.  A caller holds one    *)
(* slice of operations, puts it under keys, changes its elements and gets  *)
(* the keys back.  Slices are kept by reference: heap holds the arrays,    *)
(* the first of them the caller's, and the store holds, in multiOps, the   *)
(* index of the array of each key.                                         *)

MaxPuts == 3

StoreKeys == {NewMultiOpEntity(MultiOps).name,
              NewMultiOpEntity(<<Op("read", E1), Op("read", E2)>>).name}

\* The contents the caller gives its slice.
SliceValues ==
    {MultiOps, <<Op("read", E2), Op("write", E1)>>, <<Op("read", E1), Op("read", E2)>>}

\* A mutation of CopyOps that keeps the array it is given.
ShareOps(heap, ref) == [heap |-> heap, ref |-> ref]

\* append([]Op(nil), ops...): a new array with the elements of the array ref.
CopyOps(heap, ref) == [heap |-> Append(heap, heap[ref]), ref |-> Len(heap) + 1]

\* The caller of the store: the arrays, what was last put under each key
\* (the elements when they were put, and the expiry), the key of the call
\* and its result.
StoreCaller(call, heap, put, key, res) ==
    [call |-> call, heap |-> heap, put |-> put, key |-> key, out |-> res]

StoreInit ==
    /\ now = 0
    /\ multiOps = <<>>
    /\ minted = <<>>
    /\ issued = NotIssued
    /\ tpChecked = 0
    /\ \E v \in SliceValues :
         last = StoreCaller("none", <<v>>, <<>>, <<>>, [err |-> "none", ops |-> 0])

\* memMultiOpStore.PutMultiOp once the slice is copied (c).
StorePutCopied(key, expiry, c) ==
    /\ multiOps' = PutMultiOp(multiOps, key, c.ref, expiry)
    /\ last' = StoreCaller("PutMultiOp", c.heap,
                           [k \in DOMAIN last.put \cup {key} |->
                               IF k = key THEN [ops |-> last.heap[1], expiry |-> expiry]
                               ELSE last.put[k]],
                           key, [err |-> "none", ops |-> 0])

\* The caller puts its slice under a key.
StorePut ==
    /\ last.call = "none"
    /\ Len(last.heap) <= MaxPuts
    /\ \E key \in StoreKeys, life \in 1..2 :
         StorePutCopied(key, now + life, CopyOps(last.heap, 1))
    /\ UNCHANGED <<now, minted, issued, tpChecked>>

\* The caller gets a key.
StoreGetOps ==
    /\ last.call = "none"
    /\ \E key \in StoreKeys :
         last' = StoreCaller("GetMultiOp", last.heap, last.put, key,
                             GetMultiOp(key, "none"))
    /\ UNCHANGED <<now, multiOps, minted, issued, tpChecked>>

\* The caller changes the elements of its slice.
StoreCallerWrites ==
    /\ last.call = "none"
    /\ \E v \in SliceValues :
         /\ v # last.heap[1]
         /\ last' = [last EXCEPT !.heap[1] = v]
    /\ UNCHANGED <<now, multiOps, minted, issued, tpChecked>>

StoreReturn ==
    /\ last.call # "none"
    /\ last' = [last EXCEPT !.call = "none"]
    /\ UNCHANGED <<now, multiOps, minted, issued, tpChecked>>

StoreNext == StorePut \/ StoreGetOps \/ StoreCallerWrites \/ StoreReturn \/ Tick

StoreSpec == StoreInit /\ [][StoreNext]_vars

\* The operations GetMultiOp returned.
Got == last.heap[out.ops]

\* C23 as the specification states it: GetMultiOp returns the operations
\* put under the key, as they were when they were put, while the expiry of
\* the entry has not passed, and ErrNotFound when the key was never put or
\* its expiry has passed.
C23_GetReturnsUnexpired ==
    last.call = "GetMultiOp" =>
        /\ (last.key \in DOMAIN last.put /\ now < last.put[last.key].expiry)
              => out.err = "none" /\ Got = last.put[last.key].ops
        /\ (last.key \notin DOMAIN last.put \/ now > last.put[last.key].expiry)
              => out.err = "notfound"

\* C23, amended: GetMultiOp returns the operations last put under the key,
\* as they were when they were put, whatever the expiry of the entry and
\* whatever the caller wrote to its slice since, and ErrNotFound only when
\* the key was never put.
C23_GetReturnsPut ==
    last.call = "GetMultiOp" =>
        /\ last.key \in DOMAIN last.put
              => out.err = "none" /\ Got = last.put[last.key].ops
        /\ last.key \notin DOMAIN last.put => out.err = "notfound"

\* The key was put twice, the caller has changed its slice since the last
\* put, and the expiry of the entry has passed.
C23_Witness ==
    /\ last.call = "GetMultiOp"
    /\ last.key \in DOMAIN last.put
    /\ Len(last.heap) = 3
    /\ multiOps[last.key].ops = 3
    /\ last.heap[1] # last.put[last.key].ops
    /\ now > last.put[last.key].expiry
    /\ out.err = "none"

-----------------------------------------------------------------------------
(* One Authorizer shared by concurrent callers (src/bug/bug1/main.go).     *)
(* The service makes an Authorizer for the macaroons of a request and the  *)
(* callers call Allow, AllowAny and AllowCapability on it.  Each call goes *)
(* through initOnce.Do, whose steps are those of sync.Once: the load of    *)
(* done, the lock of the mutex, the run of initOnceFunc, which first       *)
(* clears the fields it fills, the store of done and the unlock.  A time   *)
(* t > 0 of this section is the year 2020 + t of the conditions.           *)

Callers == {1, 2}

\* The string of a first party caveat condition.
CondString(cond) ==
    IF cond.name = CondTimeBefore THEN TimeBeforeCondition(cond.t)
    ELSE IF Len(cond.args) = 0 THEN <<cond.name>>
    ELSE <<cond.name>>
         \o [k \in 1..2 * Len(cond.args) |->
                IF k % 2 = 1 THEN " " ELSE cond.args[k \div 2]]

RECURSIVE usedConditions(_, _, _)
\* The loops of AllowCapability over used and a.conditions, from macaroon
\* i: the conditions handed to squasher.add, in order.
usedConditions(a, used, i) ==
    IF i > Len(used) THEN <<>>
    ELSE (IF used[i]
          THEN [k \in 1..Len(a.conditions[i]) |-> CondString(a.conditions[i][k])]
          ELSE <<>>)
         \o usedConditions(a, used, i + 1)

\* A mutation of allowCapabilityFor that leaves out the conditions of the
\* first macaroon used.
allowCapabilityForButFirst(r) ==
    IF r.err # "none" THEN [err |-> r.err, conds |-> <<>>, r |-> r]
    ELSE [err |-> "none",
          conds |-> final(AddAll(NewSquasher,
                        usedConditions(r.a, [k \in 1..Len(r.used) |->
                            r.used[k] /\ \E j \in 1..(k - 1) : r.used[j]], 1), 1)).conds,
          r |-> r]

\* AllowCapability once allowAny returned r.
allowCapabilityFor(r) ==
    IF r.err # "none" THEN [err |-> r.err, conds |-> <<>>, r |-> r]
    ELSE [err |-> "none",
          conds |-> final(AddAll(NewSquasher, usedConditions(r.a, r.used, 1), 1)).conds,
          r |-> r]

\* Authorizer.AllowCapability once init has run; err is "error" when ops
\* holds no operation other than LoginOp.
AllowCapability(a, ops) ==
    IF \A i \in 1..Len(ops) : ops[i] = LoginOp
    THEN [err |-> "error", conds |-> <<>>,
          r |-> AllowResult(a, <<>>, <<>>, "error", <<>>, <<>>, <<>>)]
    ELSE allowCapabilityFor(allowInited(a, ops))

\* A macaroon the service minted at time 0 for LoginOp and another
\* operation, discharged by the third party.
SvcCombined ==
    <<NewMacaroon(<<LoginOp, Op("write", E1)>>,
                  <<ThirdPartyCaveat, TimeBeforeCaveat(AuthzExpiry)>>),
      Discharge(ThirdPartyCaveat, <<>>)>>

SessionJar ==
    {SvcLogin(u) : u \in Users}
    \cup {SvcCapability(<<Op("write", E1)>>), SvcCapability(<<Op("read", E2)>>),
          SvcCombined}

SessionCalls ==
    [name : {"Allow", "AllowAny", "AllowCapability"},
     ops  : {<<Op("write", E1)>>, <<Op("read", E1), Op("read", E2)>>, <<LoginOp>>}]

NoRequest == [name |-> "none", ops |-> <<>>]
NoResult  == [err |-> "idle"]

\* What a caller reads of the Authorizer once it is past init.
Observed(a) ==
    [identity |-> a.identity, conditions |-> a.conditions, authIndexes |-> a.authIndexes]

\* sync.Once: done, and m, the caller that holds the mutex, 0 for nobody.
NewOnce == [done |-> FALSE, m |-> 0]

\* A mutation of OnceLocks in which the mutex excludes nobody.
OnceLocksAnyway(once) == TRUE

\* Mutex.Lock returns for a caller when nobody holds the mutex.
OnceLocks(once) == once.m = 0

\* A mutation of sessionCall in which a call leaves the Authorizer without
\* its identity.
sessionCallForgets(a, req) ==
    IF req.name = "AllowCapability"
    THEN [a |-> [a EXCEPT !.identity = ""], res |-> AllowCapability(a, req.ops)]
    ELSE [a |-> [a EXCEPT !.identity = ""], res |-> AllowAny(a, req.ops)]

\* The rest of a call once init has returned: the Authorizer as the call
\* leaves it and the result of the call.
sessionCall(a, req) ==
    IF req.name = "AllowCapability"
    THEN [a |-> AllowCapability(a, req.ops).r.a, res |-> AllowCapability(a, req.ops)]
    ELSE [a |-> AllowAny(a, req.ops).r.a, res |-> AllowAny(a, req.ops)]

\* The start of initOnceFunc: the make of authIndexes and of conditions.
initReset(a) ==
    [a EXCEPT !.authIndexes = [op \in SvcOps |-> <<>>],
              !.conditions = [i \in 1..Len(a.macaroons) |-> <<>>],
              !.inits = @ + 1]

SessionInit ==
    /\ now = 0
    /\ multiOps = <<>>
    /\ minted = <<>>
    /\ issued = NotIssued
    /\ tpChecked = 0
    /\ \E mss \in SeqsUpTo(SessionJar, MaxMss) :
         last = [call |-> "none",
                 a |-> NewAuthorizer(mss), snap |-> NewAuthorizer(mss),
                 once |-> NewOnce,
                 pc |-> [p \in Callers |-> "idle"],
                 req |-> [p \in Callers |-> NoRequest],
                 res |-> [p \in Callers |-> NoResult],
                 seen |-> [p \in Callers |-> Observed(NewAuthorizer(mss))]]

\* A caller calls Allow, AllowAny or AllowCapability; AllowCapability
\* returns at once when there is no operation other than LoginOp.
CallerCalls(p) ==
    /\ last.pc[p] = "idle"
    /\ \E req \in SessionCalls :
         last' = IF req.name = "AllowCapability"
                    /\ \A i \in 1..Len(req.ops) : req.ops[i] = LoginOp
                 THEN [last EXCEPT !.pc[p] = "returned", !.req[p] = req,
                                   !.res[p] = AllowCapability(last.a, req.ops),
                                   !.seen[p] = Observed(last.snap)]
                 ELSE [last EXCEPT !.pc[p] = "do", !.req[p] = req]
    /\ UNCHANGED <<now, multiOps, minted, issued, tpChecked>>

\* Once.Do: atomic.LoadUint32(&o.done)
OnceLoads(p) ==
    /\ last.pc[p] = "do"
    /\ last' = [last EXCEPT !.pc[p] = IF last.once.done THEN "inited" ELSE "slow"]
    /\ UNCHANGED <<now, multiOps, minted, issued, tpChecked>>

\* Once.doSlow: o.m.Lock(), then the test of o.done.
OnceLock(p) ==
    /\ last.pc[p] = "slow"
    /\ OnceLocks(last.once)
    /\ last' = [last EXCEPT !.once.m = p,
                            !.pc[p] = IF last.once.done THEN "unlock" ELSE "begin"]
    /\ UNCHANGED <<now, multiOps, minted, issued, tpChecked>>

\* initOnceFunc makes the map and the slice it fills.
InitBegins(p) ==
    /\ last.pc[p] = "begin"
    /\ last' = [last EXCEPT !.pc[p] = "loop",
                            !.a = initReset(last.a)]
    /\ UNCHANGED <<now, multiOps, minted, issued, tpChecked>>

\* initOnceFunc runs its loop and returns; the deferred store of done.
InitEnds(p) ==
    /\ last.pc[p] = "loop"
    /\ last' = [last EXCEPT !.pc[p] = "unlock",
                            !.a = initLoop(last.a, 1),
                            !.snap = initLoop(last.a, 1),
                            !.once.done = TRUE]
    /\ UNCHANGED <<now, multiOps, minted, issued, tpChecked>>

\* Once.doSlow: the deferred o.m.Unlock()
OnceUnlock(p) ==
    /\ last.pc[p] = "unlock"
    /\ last' = [last EXCEPT !.once.m = IF @ = p THEN 0 ELSE @, !.pc[p] = "inited"]
    /\ UNCHANGED <<now, multiOps, minted, issued, tpChecked>>

\* init has returned: the caller reads the Authorizer and the call runs to
\* its end.
CallerProceeds(p) ==
    /\ last.pc[p] = "inited"
    /\ last' = [last EXCEPT !.pc[p] = "returned",
                            !.seen[p] = Observed(last.a),
                            !.a = sessionCall(last.a, last.req[p]).a,
                            !.res[p] = sessionCall(last.a, last.req[p]).res]
    /\ UNCHANGED <<now, multiOps, minted, issued, tpChecked>>

\* The caller has read the result.
CallerReturns(p) ==
    /\ last.pc[p] = "returned"
    /\ last' = [last EXCEPT !.pc[p] = "idle", !.req[p] = NoRequest,
                            !.res[p] = NoResult, !.seen[p] = Observed(last.snap)]
    /\ UNCHANGED <<now, multiOps, minted, issued, tpChecked>>

SessionNext ==
    \/ \E p \in Callers :
          \/ CallerCalls(p) \/ OnceLoads(p) \/ OnceLock(p) \/ InitBegins(p)
          \/ InitEnds(p) \/ OnceUnlock(p) \/ CallerProceeds(p) \/ CallerReturns(p)
    \/ Tick

SessionSpec == SessionInit /\ [][SessionNext]_vars

(* Properties of the shared Authorizer. *)

\* The times of the time-before caveats of the macaroons a result marks
\* used, those of their discharges among them.
UsedTimes(r) ==
    {cav.Condition.t : cav \in UNION {Range(m.cavs) : m \in UNION {Range(r.a.macaroons[i]) :
                                         i \in {k \in 1..Len(r.used) : r.used[k]}}}
                                 \cap {c \in UNION {Range(m.cavs) : m \in UNION {Range(ms) : ms \in Range(r.a.macaroons)}} :
                                         c.Location = "" /\ c.Condition.name = CondTimeBefore}}

\* The callers to which AllowCapability has returned a list of conditions.
Capable ==
    {p \in Callers : /\ last.pc[p] = "returned"
                     /\ last.req[p].name = "AllowCapability"
                     /\ last.res[p].err = "none"}

\* C27: the conditions a successful AllowCapability returns hold a
\* time-before condition whose time is no later than the time of any
\* time-before caveat of any macaroon marked used, the authentication
\* macaroon among them; they hold no time-before condition only when no
\* macaroon marked used has a time-before caveat.
C27_CapabilityExpiresFirst ==
    \A p \in Capable :
        LET conds == last.res[p].conds
            times == UsedTimes(last.res[p].r)
        IN /\ times # {} =>
                \E k \in 1..Len(conds) :
                    /\ HasTime(conds[k])
                    /\ \A t \in times : TimeOf(conds[k]) <= t
           /\ (\A k \in 1..Len(conds) : ~IsTimeBefore(conds[k])) => times = {}

\* C27 happens: AllowCapability has returned conditions for a capability
\* macaroon that expires at AuthzExpiry and an authentication macaroon that
\* expires at AuthnExpiry, with a time-before condition for AuthzExpiry.
C27_Witness ==
    \E p \in Capable :
        /\ UsedTimes(last.res[p].r) = {AuthzExpiry, AuthnExpiry}
        /\ TimeBeforeCondition(AuthzExpiry) \in Range(last.res[p].conds)

\* The callers whose call is past the call of init.
PastInit ==
    {p \in Callers :
        \/ last.pc[p] = "inited"
        \/ /\ last.pc[p] = "returned"
           /\ ~ /\ last.req[p].name = "AllowCapability"
                /\ \A i \in 1..Len(last.req[p].ops) : last.req[p].ops[i] = LoginOp}

\* C22: initOnceFunc runs at most once on one Authorizer, however many
\* calls of Allow, AllowAny and AllowCapability there are and however they
\* interleave; a caller is past init only when that run has completed; and
\* every caller past init has read the identity, conditions and authIndexes
\* that run left.
C22_InitRunsOnce ==
    /\ last.a.inits <= 1
    /\ \A p \in PastInit :
          /\ last.once.done
          /\ last.a.inits = 1
          /\ \A q \in Callers : last.pc[q] \notin {"begin", "loop"}
          /\ last.pc[p] = "returned" => last.seen[p] = Observed(last.snap)

\* C22 happens: both callers have made a call that went through init, the
\* second while the first holds the result of its call, and initOnceFunc
\* has run and found the identity of the request.
C22_Witness ==
    /\ PastInit = Callers
    /\ \A p \in Callers : last.pc[p] = "returned"
    /\ last.a.inits = 1
    /\ last.a.identity # ""

\* C26: once init has run no call changes the identity, the conditions or
\* the authIndexes of the Authorizer, and the result of a call is the one
\* its request has on the Authorizer as init left it, whatever calls were
\* made before it.
C26_IdentityFixed ==
    [][last.once.done =>
          /\ Observed(last'.a) = Observed(last.a)
          /\ \A p \in Callers :
                last.pc[p] = "inited" /\ last'.pc[p] = "returned" =>
                    last'.res[p] = sessionCall(last.snap, last.req[p]).res]_vars

\* C26 happens: on an Authorizer that has an identity, Allow and
\* AllowCapability have both returned without error, one of the two calls
\* made after the other had ended.
C26_Witness ==
    /\ last.a.identity # ""
    /\ \E p, q \in PastInit :
          /\ last.pc[p] = "returned" /\ last.req[p].name = "Allow"
          /\ last.res[p].r.err = "none"
          /\ last.pc[q] = "returned" /\ last.req[q].name = "AllowCapability"
          /\ last.res[q].err = "none"

====
